---------------------------- MODULE Spec2Model ----------------------------
(***************************************************************************)
(* Cold-room temperature monitor: the telemetry ingestion endpoint         *)
(* (app.py, receive_esp32_data), the SQLite store accessors (database.py)  *)
(* and the read side (latest status, 24-hour statistics).                  *)
(*                                                                         *)
(* Conventions.  An optional value (Python None / SQL NULL / absent JSON   *)
(* key) is the empty tuple None; a present value v is <<v>>.  The clock    *)
(* `now` counts milliseconds since 2025-01-01 00:00:00 UTC; a stored       *)
(* timestamp (CURRENT_TIMESTAMP, second precision) counts whole seconds    *)
(* since the same instant.  A temperature is a multiple of 0.5 degrees     *)
(* C, held as its number of half degrees (5 is 2.5 C): such values and     *)
(* their sums are exact in binary floating point, so the only rounding     *)
(* the REAL arithmetic of the code performs on them is modelled where it   *)
(* happens (division, +0.5, -0.5).                                         *)
(***************************************************************************)
EXTENDS Integers, Sequences, FiniteSets, TLC

(***************************************************************************)
(* Bounds of the model.                                                    *)
(***************************************************************************)
MaxRooms    == 2      \* room ids ever handed out by AUTOINCREMENT
MaxBatch    == 2      \* readings in one request
MaxReadings == 2      \* readings received in all requests together
MaxRequests == 2      \* ingestion requests received
MaxWindow   == 6      \* samples of the series the statistics are computed from
MaxExport   == 2      \* samples of the tables the export is computed from
MaxRecent   == 2      \* samples of the tables the most recent reading is taken from
MaxLocations == 2     \* locations ever added

None == <<>>
Some(v) == <<v>>
IsNone(o) == o = None
Val(o) == o[1]

Sensors   == {"s1", "s2"}
Macs      == {"m1"}
Names     == {"A"}
Locations == {1}

\* The table locations holding the one location 'L', with id 1.
OneLocation == [rows |-> [id \in Locations |-> "L"], seq |-> 1]
RoomIds   == 1..MaxRooms

\* Temperatures a device reports, in half degrees: 0.0, 2.0 and 2.5 C.
Temps == {0, 4, 5}

VARIABLES
  cold_rooms,     \* table cold_rooms: id -> [name, location_id, sensor_id]
  next_room_id,   \* AUTOINCREMENT counter of cold_rooms
  temperature_data, \* table temperature_data, in rowid order
  esp32_errors,   \* table esp32_errors, in rowid order
  now,            \* the clock, in milliseconds
  req,            \* the ingestion handler: its position, locals and response
  nreq,           \* number of ingestion requests received so far
  nreadings,      \* number of readings received so far
  suspended,      \* the ingestion handler of a second thread, while it does not run
  locations,      \* table locations: [rows: id -> name, seq: AUTOINCREMENT counter]
  view            \* the result of the read request served by the last step

vars == <<cold_rooms, next_room_id, temperature_data, esp32_errors, now, req, nreq, nreadings,
          suspended, locations, view>>

\* No read request was served by the last step.
NoView == [kind |-> "none"]

-----------------------------------------------------------------------------
(***************************************************************************)
(* The clock.                                                              *)
(***************************************************************************)
LIVE_SECONDS == 900
DAY_SECONDS  == 86400

\* Instants at which the clock is observed (ms): the ingestion runs see two
\* seconds; the read side sees both sides of the 15-minute boundary for a
\* sample written at 0 s and for one written at 2 s, and both sides of the
\* 24-hour boundary for a sample written at 0 s.
IngestInstants == {0, 2000}
ReadInstants == {0, 2000, 900000, 901000, 902000,
                 86400000, 86400500, 86401000}

\* CURRENT_TIMESTAMP / datetime('now'): the clock cut to the whole second.
CurrentTimestamp == now \div 1000

-----------------------------------------------------------------------------
(***************************************************************************)
(* Registry: table cold_rooms.                                             *)
(***************************************************************************)
RoomExists(id) == id \in DOMAIN cold_rooms

\* Mutant of SensorTaken: sensor_id TEXT without UNIQUE.
SensorTaken_NotUnique(sensor_id, except) == FALSE

\* UNIQUE(sensor_id): NULLs never collide.
SensorTaken(sensor_id, except) ==
  /\ ~IsNone(sensor_id)
  /\ \E id \in DOMAIN cold_rooms : id # except /\ cold_rooms[id].sensor_id = sensor_id

\* Mutant of get_cold_room_by_sensor: WHERE sensor_id IS NOT NULL.
get_cold_room_by_sensor_any(sensor_id) ==
  {id \in DOMAIN cold_rooms : ~IsNone(cold_rooms[id].sensor_id)}

\* get_cold_room_by_sensor: the ids of the rows whose sensor_id equals the argument.
get_cold_room_by_sensor(sensor_id) ==
  {id \in DOMAIN cold_rooms : cold_rooms[id].sensor_id = Some(sensor_id)}

\* add_cold_room: the id of the new row, or None on sqlite3.IntegrityError;
\* the view holds what the call was given and what it returned.
add_cold_room(name, location_id, sensor_id) ==
  /\ next_room_id <= MaxRooms
  /\ IF SensorTaken(sensor_id, 0)
       THEN /\ UNCHANGED <<cold_rooms, next_room_id>>
            /\ view' = [kind |-> "add_cold_room", sensor_id |-> sensor_id,
                        result |-> None]
       ELSE /\ cold_rooms' = [id \in DOMAIN cold_rooms \cup {next_room_id} |->
                                IF id = next_room_id
                                  THEN [name |-> name, location_id |-> location_id,
                                        sensor_id |-> sensor_id]
                                  ELSE cold_rooms[id]]
            /\ next_room_id' = next_room_id + 1
            /\ view' = [kind |-> "add_cold_room", sensor_id |-> sensor_id,
                        result |-> Some(next_room_id)]
  /\ UNCHANGED <<temperature_data, esp32_errors, now, req, nreq, nreadings, suspended, locations>>

\* update_cold_room: True, or False on sqlite3.IntegrityError.
update_cold_room(cold_room_id, name, sensor_id) ==
  /\ RoomExists(cold_room_id)
  /\ IF SensorTaken(sensor_id, cold_room_id)
       THEN /\ UNCHANGED cold_rooms
            /\ view' = [kind |-> "update_cold_room", cold_room_id |-> cold_room_id,
                        sensor_id |-> sensor_id, result |-> FALSE]
       ELSE /\ cold_rooms' = [cold_rooms EXCEPT ![cold_room_id] =
                                [name |-> name, location_id |-> @.location_id,
                                 sensor_id |-> sensor_id]]
            /\ view' = [kind |-> "update_cold_room", cold_room_id |-> cold_room_id,
                        sensor_id |-> sensor_id, result |-> TRUE]
  /\ UNCHANGED <<next_room_id, temperature_data, esp32_errors, now, req, nreq, nreadings, suspended, locations>>

\* Mutant of delete_cold_room: the errors logged for the room's sensor go too.
delete_cold_room_with_errors(cold_room_id) ==
  /\ RoomExists(cold_room_id)
  /\ cold_rooms' = [id \in DOMAIN cold_rooms \ {cold_room_id} |-> cold_rooms[id]]
  /\ esp32_errors' = SelectSeq(esp32_errors,
                        LAMBDA e : Some(e.sensor_id) # cold_rooms[cold_room_id].sensor_id)
  /\ UNCHANGED <<next_room_id, temperature_data, now, req, nreq, nreadings, suspended, locations>>
  /\ view' = NoView

\* delete_cold_room: DELETE FROM cold_rooms.  get_db_connection never issues
\* PRAGMA foreign_keys = ON, so SQLite does not act on ON DELETE CASCADE.
delete_cold_room(cold_room_id) ==
  /\ RoomExists(cold_room_id)
  /\ cold_rooms' = [id \in DOMAIN cold_rooms \ {cold_room_id} |-> cold_rooms[id]]
  /\ UNCHANGED <<next_room_id, temperature_data, esp32_errors, now, req, nreq, nreadings, suspended, locations>>
  /\ view' = NoView

-----------------------------------------------------------------------------
(***************************************************************************)
(* Table locations.  Rooms keep the location_id of a location that is      *)
(* deleted: ON DELETE CASCADE is not enforced.                             *)
(***************************************************************************)
LocationNames == {"L", "M"}
LocationIds == 1..MaxLocations

\* UNIQUE(name) on locations.
LocationNameTaken(name, except) ==
  \E id \in DOMAIN locations.rows : id # except /\ locations.rows[id] = name

\* add_location: a new row, or nothing on sqlite3.IntegrityError.
add_location(name) ==
  /\ locations.seq < MaxLocations
  /\ locations' =
       IF LocationNameTaken(name, 0) THEN locations
       ELSE [rows |-> [id \in DOMAIN locations.rows \cup {locations.seq + 1} |->
                         IF id = locations.seq + 1 THEN name ELSE locations.rows[id]],
             seq |-> locations.seq + 1]
  /\ UNCHANGED <<cold_rooms, next_room_id, temperature_data, esp32_errors, now,
                 req, nreq, nreadings, suspended>>
  /\ view' = NoView

\* edit_location: update_location for a location that exists.
update_location(location_id, name) ==
  /\ location_id \in DOMAIN locations.rows
  /\ locations' =
       IF LocationNameTaken(name, location_id) THEN locations
       ELSE [locations EXCEPT !.rows[location_id] = name]
  /\ UNCHANGED <<cold_rooms, next_room_id, temperature_data, esp32_errors, now,
                 req, nreq, nreadings, suspended>>
  /\ view' = NoView

\* delete_location: DELETE FROM locations WHERE id = ?
delete_location(location_id) ==
  /\ locations' =
       [locations EXCEPT !.rows = [id \in DOMAIN locations.rows \ {location_id} |->
                                     locations.rows[id]]]
  /\ UNCHANGED <<cold_rooms, next_room_id, temperature_data, esp32_errors, now,
                 req, nreq, nreadings, suspended>>
  /\ view' = NoView

AddLocation == \E name \in LocationNames : add_location(name)

UpdateLocation ==
  \E location_id \in LocationIds, name \in LocationNames :
    update_location(location_id, name)

DeleteLocation ==
  \E location_id \in DOMAIN locations.rows : delete_location(location_id)

-----------------------------------------------------------------------------
(***************************************************************************)
(* Store writes.                                                           *)
(***************************************************************************)
\* Mutant of insert_temperature_data: a reading of 0 degrees is not written.
insert_temperature_data_skips_zero(cold_room_id, temperature) ==
  IF temperature = 0
    THEN temperature_data
    ELSE Append(temperature_data,
                [id |-> Len(temperature_data) + 1, cold_room_id |-> cold_room_id,
                 temperature |-> temperature, timestamp |-> CurrentTimestamp])

\* insert_temperature_data: the table after the INSERT.
insert_temperature_data(cold_room_id, temperature) ==
  Append(temperature_data,
         [id |-> Len(temperature_data) + 1, cold_room_id |-> cold_room_id,
          temperature |-> temperature, timestamp |-> CurrentTimestamp])

\* Mutant of log_esp32_error: the table keeps the latest error alone.
log_esp32_error_latest_only(esp32_mac, sensor_id, error_type, error_message) ==
  <<[id |-> 1, esp32_mac |-> esp32_mac,
     sensor_id |-> sensor_id, error_type |-> error_type,
     error_message |-> error_message, timestamp |-> CurrentTimestamp,
     resolved |-> FALSE]>>

\* log_esp32_error: the table after the INSERT.
log_esp32_error(esp32_mac, sensor_id, error_type, error_message) ==
  Append(esp32_errors,
         [id |-> Len(esp32_errors) + 1, esp32_mac |-> esp32_mac,
          sensor_id |-> sensor_id, error_type |-> error_type,
          error_message |-> error_message, timestamp |-> CurrentTimestamp,
          resolved |-> FALSE])

\* Where the store may fail while an error is logged: not at all, in
\* get_db_connection, in conn.execute or in conn.commit.
StoreFaults == {"none", "connect", "execute", "commit"}

\* A call of log_esp32_error under a fault: whether it raises, and the table
\* after it.  get_db_connection() is called before the try block, so its
\* exception leaves the function; those of execute and commit are caught by
\* `except Exception`, and the function returns None with nothing written.
LogEsp32Error(fault, esp32_mac, sensor_id, error_type, error_message) ==
  [raises |-> fault = "connect",
   esp32_errors |-> IF fault = "none"
                      THEN log_esp32_error(esp32_mac, sensor_id, error_type,
                                           error_message)
                      ELSE esp32_errors]

-----------------------------------------------------------------------------
(***************************************************************************)
(* Ingestion endpoint: POST /api/data, receive_esp32_data.                 *)
(*                                                                         *)
(* A request body is [has_json, esp32_mac, readings].  has_json is FALSE   *)
(* when get_json() yields nothing.  readings is [kind, number, items]:     *)
(* kind "null" (key absent or null), "number" (a JSON number, which is no  *)
(* collection) or "list".  An element of the list is [is_object,           *)
(* sensor_id, temperature]; is_object is FALSE for an element that is no   *)
(* key/value object (it has no .get).                                      *)
(***************************************************************************)
Truthy(o) == ~IsNone(o) /\ Val(o) # "" 

ReadingTemps == {0, 5}

ObjectReadings ==
  [is_object : {TRUE},
   sensor_id : {None, Some("")} \cup {Some(s) : s \in Sensors},
   temperature : {None} \cup {Some(t) : t \in ReadingTemps}]

Elements == ObjectReadings \cup
            {[is_object |-> FALSE, sensor_id |-> None, temperature |-> None]}

Batches == UNION {[1..n -> Elements] : n \in 0..MaxBatch}

ReadingsValues ==
  {[kind |-> "null", number |-> 0, items |-> <<>>],
   [kind |-> "number", number |-> 0, items |-> <<>>],
   [kind |-> "number", number |-> 5, items |-> <<>>]}
  \cup {[kind |-> "list", number |-> 0, items |-> b] : b \in Batches}

NoJson == [has_json |-> FALSE, esp32_mac |-> None,
           readings |-> [kind |-> "null", number |-> 0, items |-> <<>>]]

\* A body with a device id and any readings value; a body whose device id is
\* absent or empty, with no readings or with one well-formed reading (the
\* payloads of test_invalid_payload); and no JSON body at all.
Requests ==
  [has_json : {TRUE}, esp32_mac : {Some(m) : m \in Macs}, readings : ReadingsValues]
  \cup [has_json : {TRUE}, esp32_mac : {None, Some("")},
        readings : {rd \in ReadingsValues :
                      \/ rd.kind = "null"
                      \/ /\ rd.kind = "list" /\ Len(rd.items) = 1
                         /\ rd.items[1].is_object
                         /\ rd.items[1].sensor_id = Some("s1")
                         /\ rd.items[1].temperature = Some(5)}]
  \cup {NoJson}

\* `not readings`
ReadingsFalsy(rd) ==
  \/ rd.kind = "null"
  \/ rd.kind = "number" /\ rd.number = 0
  \/ rd.kind = "list" /\ rd.items = <<>>

NoMessage == [text |-> "", processed |-> 0, errors |-> None]

\* The handler between requests.  Besides the locals of receive_esp32_data
\* and its response, it records what the request was and what it met: `data`
\* is the body being served or last answered, `lookups` counts its calls of
\* get_cold_room_by_sensor, `rows0` and `errors0` are the sizes of the two
\* tables when it arrived.
Idle == [pc |-> "idle", data |-> NoJson, esp32_mac |-> "", readings |-> <<>>, i |-> 0,
         processed_count |-> 0, error_count |-> 0, lookups |-> 0,
         rows0 |-> 0, errors0 |-> 0, cold_room |-> None,
         http |-> 0, status |-> "", message |-> NoMessage]

\* return jsonify({"status": ..., "message": ...}), code: the handler's locals
\* are gone, its response stays.
Respond(r, http, status, message) ==
  [Idle EXCEPT !.pc = "done", !.data = r.data, !.lookups = r.lookups,
               !.rows0 = r.rows0, !.errors0 = r.errors0,
               !.http = http, !.status = status, !.message = message]

\* `not esp32_mac or not readings`
EnvelopeMissing(data) == ~Truthy(data.esp32_mac) \/ ReadingsFalsy(data.readings)

\* Mutant of IsWellFormed: `sensor_id and temperature`.
IsWellFormed_ZeroIsAbsent(sensor_id, temperature) ==
  Truthy(sensor_id) /\ ~IsNone(temperature) /\ Val(temperature) # 0

\* `sensor_id and temperature is not None`
IsWellFormed(sensor_id, temperature) == Truthy(sensor_id) /\ ~IsNone(temperature)

\* `sensor_id or 'UNKNOWN'`
SensorOrUnknown(sensor_id) == IF Truthy(sensor_id) THEN Val(sensor_id) ELSE "UNKNOWN"

ErrorMessage(text) == [text |-> text, processed |-> 0, errors |-> None]

\* f"Processed {processed_count} readings." and, when error_count > 0,
\* f" {error_count} errors logged."
ResponseMessage(processed_count, error_count) ==
  [text |-> "Processed", processed |-> processed_count,
   errors |-> IF error_count > 0 THEN Some(error_count) ELSE None]

\* From the entry of the handler up to the first iteration of the loop.
Receive(data) ==
  /\ req.pc \notin {"loop", "insert"}
  /\ nreq < MaxRequests
  /\ nreadings + Len(data.readings.items) <= MaxReadings
  /\ nreq' = nreq + 1
  /\ nreadings' = nreadings + Len(data.readings.items)
  /\ LET r == [Idle EXCEPT !.data = data, !.rows0 = Len(temperature_data),
                            !.errors0 = Len(esp32_errors)]
     IN req' =
       IF ~data.has_json
         THEN Respond(r, 400, "error", ErrorMessage("Invalid JSON"))
       ELSE IF EnvelopeMissing(data)
         THEN Respond(r, 400, "error", ErrorMessage("Missing esp32_mac or readings"))
       ELSE IF data.readings.kind # "list"
         \* `for reading in readings` raises TypeError: except Exception -> 500
         THEN Respond(r, 500, "error", ErrorMessage("Internal server error"))
       ELSE [r EXCEPT !.pc = "loop", !.esp32_mac = Val(data.esp32_mac),
                      !.readings = data.readings.items]
  /\ UNCHANGED <<cold_rooms, next_room_id, temperature_data, esp32_errors, now,
                 suspended, locations>>
  /\ view' = NoView

\* The handler after iteration number r.i + 1 that ended normally.
Advance(r) ==
  IF r.i = Len(r.readings)
    THEN Respond(r, 200, "success", ResponseMessage(r.processed_count, r.error_count))
    ELSE r

\* One iteration of `for reading in readings`, the store failing as `fault`
\* says when the iteration logs an error.
Iterate(fault) ==
  /\ req.pc = "loop"
  /\ LET reading     == req.readings[req.i + 1]
         sensor_id   == reading.sensor_id
         temperature == reading.temperature
     IN
     IF ~reading.is_object
       THEN \* reading.get raises AttributeError: except Exception -> 500
            /\ req' = Respond(req, 500, "error", ErrorMessage("Internal server error"))
            /\ UNCHANGED <<temperature_data, esp32_errors>>
     ELSE IF IsWellFormed(sensor_id, temperature)
       THEN LET cold_room == get_cold_room_by_sensor(Val(sensor_id)) IN
            IF cold_room # {}
              THEN /\ \E id \in cold_room :
                        temperature_data' = insert_temperature_data(id, Val(temperature))
                   /\ req' = Advance([req EXCEPT !.i = @ + 1, !.lookups = @ + 1,
                                                 !.processed_count = @ + 1])
                   /\ UNCHANGED esp32_errors
              ELSE LET log == LogEsp32Error(fault, req.esp32_mac, Val(sensor_id),
                                "UNREGISTERED_SENSOR",
                                <<"Unregistered sensor_id", sensor_id>>) IN
                   /\ esp32_errors' = log.esp32_errors
                   /\ req' = IF log.raises    \* except Exception -> 500
                               THEN Respond(req, 500, "error",
                                            ErrorMessage("Internal server error"))
                               ELSE Advance([req EXCEPT !.i = @ + 1, !.lookups = @ + 1,
                                                        !.error_count = @ + 1])
                   /\ UNCHANGED temperature_data
       ELSE LET log == LogEsp32Error(fault, req.esp32_mac,
                         SensorOrUnknown(sensor_id),
                         "MALFORMED_DATA",
                         <<"Malformed reading", sensor_id, temperature>>) IN
            /\ esp32_errors' = log.esp32_errors
            /\ req' = IF log.raises    \* except Exception -> 500
                        THEN Respond(req, 500, "error",
                                     ErrorMessage("Internal server error"))
                        ELSE Advance([req EXCEPT !.i = @ + 1, !.error_count = @ + 1])
            /\ UNCHANGED temperature_data
  /\ UNCHANGED <<cold_rooms, next_room_id, now, nreq, nreadings, suspended, locations>>
  /\ view' = NoView

\* An iteration with a store that works.
ProcessReading == Iterate("none")

\* The first half of an iteration that finds the room of a well-formed
\* reading: get_cold_room_by_sensor runs in a connection of its own, and
\* the handler holds the row it returned in `cold_room`.
LookupSensor ==
  /\ req.pc = "loop"
  /\ LET reading == req.readings[req.i + 1] IN
     /\ reading.is_object
     /\ IsWellFormed(reading.sensor_id, reading.temperature)
     /\ \E id \in get_cold_room_by_sensor(Val(reading.sensor_id)) :
          req' = [req EXCEPT !.pc = "insert", !.cold_room = Some(id),
                             !.lookups = @ + 1]
  /\ UNCHANGED <<cold_rooms, next_room_id, temperature_data, esp32_errors, now,
                 nreq, nreadings, suspended, locations>>
  /\ view' = NoView

\* The second half: insert_temperature_data(cold_room['id'], temperature)
\* in a later connection, and processed_count += 1.
AppendSample ==
  /\ req.pc = "insert"
  /\ temperature_data' = insert_temperature_data(Val(req.cold_room),
                            Val(req.readings[req.i + 1].temperature))
  /\ req' = Advance([req EXCEPT !.pc = "loop", !.cold_room = None, !.i = @ + 1,
                                !.processed_count = @ + 1])
  /\ UNCHANGED <<cold_rooms, next_room_id, esp32_errors, now,
                 nreq, nreadings, suspended, locations>>
  /\ view' = NoView

\* An iteration that finds no room for its reading and logs an error.
LogReading ==
  /\ req.pc = "loop"
  /\ LET reading == req.readings[req.i + 1] IN
     ~(/\ reading.is_object
       /\ IsWellFormed(reading.sensor_id, reading.temperature)
       /\ get_cold_room_by_sensor(Val(reading.sensor_id)) # {})
  /\ ProcessReading

\* An iteration with a store that works or fails.
ProcessReadingFaulty == \E fault \in StoreFaults : Iterate(fault)

\* Mutant of Switch: processed_count and error_count are kept in the process
\* rather than in the handler, so the handler that resumes finds the counts
\* of the one that ran.
Switch_SharedCounters ==
  /\ req.pc = "loop" \/ suspended.pc = "loop"
  /\ req' = IF suspended.pc = "loop" /\ req.pc = "loop"
              THEN [suspended EXCEPT !.processed_count = req.processed_count,
                                     !.error_count = req.error_count]
              ELSE suspended
  /\ suspended' = req
  /\ UNCHANGED <<cold_rooms, next_room_id, temperature_data, esp32_errors, now,
                 nreq, nreadings, locations>>
  /\ view' = NoView

\* Two requests are served by two threads: the handler that runs is
\* suspended between two of its statements and the other one resumes or
\* starts.  The locals of a handler go with it.
Switch ==
  /\ req.pc = "loop" \/ suspended.pc = "loop"
  /\ req' = suspended
  /\ suspended' = req
  /\ UNCHANGED <<cold_rooms, next_room_id, temperature_data, esp32_errors, now,
                 nreq, nreadings, locations>>
  /\ view' = NoView

\* Time passes.
Tick(instants) ==
  /\ \E t \in instants : t > now /\ now' = t
  /\ UNCHANGED <<cold_rooms, next_room_id, temperature_data, esp32_errors, req, nreq, nreadings, suspended, locations>>
  /\ view' = NoView

-----------------------------------------------------------------------------
(***************************************************************************)
(* Dates.  The store writes a timestamp as the text 'YYYY-MM-DD HH:MM:SS'  *)
(* and SQLite's julianday() turns a date into a REAL number of days.       *)
(***************************************************************************)
\* The text of a stored timestamp, field by field (within January 2025).
TimestampText(timestamp) ==
  <<2025, 1, 1 + timestamp \div DAY_SECONDS,
    (timestamp % DAY_SECONDS) \div 3600, (timestamp % 3600) \div 60, timestamp % 60>>

\* format_timestamp_indian: '%Y-%m-%d %H:%M:%S' -> '%d-%m-%Y %H:%M:%S'.
format_timestamp_indian(timestamp_str) ==
  <<timestamp_str[3], timestamp_str[2], timestamp_str[1],
    timestamp_str[4], timestamp_str[5], timestamp_str[6]>>

(***************************************************************************)
(* julianday(d) is the date's integer millisecond count iJD divided by     *)
(* 86400000.0 in IEEE double precision, rounded to nearest.  A Julian day  *)
(* number of this era lies in [2^21, 2^22), where a double has 31 fraction *)
(* bits: one unit in the last place is 2^-31 day.  86400000 = 2^10 * 84375 *)
(* and the model's epoch is a whole number of 84375 ms blocks, so the      *)
(* double of an instant q * 84375 + r ms after the epoch lies              *)
(* q * 2^21 + round(r * 2^21 / 84375) units after the epoch's double.  A   *)
(* Julian day is held as that pair <<q, f>>, 0 <= f < 2^21.                *)
(***************************************************************************)
JdBlockMs == 86400000 \div 2^10
JdUnits   == 2^21

\* julianday of the instant ms milliseconds after the epoch.  The fraction
\* round(r * 2^21 / 84375) is formed in two steps, 2^10 and then 2^11, to
\* keep the products small; 84375 is odd, so no tie occurs.
julianday(ms) ==
  LET q  == ms \div JdBlockMs
      r  == ms % JdBlockMs
      r1 == (r * 2^10) % JdBlockMs
      r2 == (r1 * 2^11) % JdBlockMs
      f  == ((r * 2^10) \div JdBlockMs) * 2^11 + (r1 * 2^11) \div JdBlockMs
              + (IF 2 * r2 > JdBlockMs THEN 1 ELSE 0)
  IN  IF f = JdUnits THEN <<q + 1, 0>> ELSE <<q, f>>

\* (a - b) * 86400 for Julian days a >= b.  The difference of two doubles
\* of one binade is exact, and so is the product with 86400 (the
\* difference has at most 31 significant bits): the result is the pair
\* <<q, f>> standing for (q * 2^21 + f) * 86400 / 2^31 seconds.
JdSeconds(a, b) ==
  IF a[2] >= b[2] THEN <<a[1] - b[1], a[2] - b[2]>>
  ELSE <<a[1] - b[1] - 1, a[2] - b[2] + JdUnits>>

\* (julianday('now') - julianday(timestamp)) * 86400
seconds_ago(timestamp) == JdSeconds(julianday(now), julianday(timestamp * 1000))

\* seconds_ago <= seconds: (q * 2^21 + f) * 675 / 2^24 <= seconds.
SecondsAgoAtMost(ago, seconds) ==
  LET per   == DAY_SECONDS \div 128
      whole == (8 * seconds) \div per
      part  == (((8 * seconds) % per) * JdUnits) \div per
  IN  \/ ago[1] < whole
      \/ ago[1] = whole /\ ago[2] <= part

\* Mutant of is_active: a sample counts as live for a day.
is_active_for_a_day(ago) == IsNone(ago) \/ SecondsAgoAtMost(Val(ago), DAY_SECONDS)

\* is_active = row['seconds_ago'] is None or row['seconds_ago'] <= 900
is_active(ago) == IsNone(ago) \/ SecondsAgoAtMost(Val(ago), LIVE_SECONDS)

-----------------------------------------------------------------------------
(***************************************************************************)
(* Store reads.                                                            *)
(***************************************************************************)
\* The rows of temperature_data of one room.
RowsOf(cold_room_id) ==
  {temperature_data[i] : i \in {j \in DOMAIN temperature_data :
                                  temperature_data[j].cold_room_id = cold_room_id}}

\* ORDER BY timestamp DESC: every order of the rows in which timestamps
\* never increase; SQLite leaves the order of equal timestamps open.
RECURSIVE OrderByTimestampDesc(_)
OrderByTimestampDesc(rows) ==
  IF rows = {} THEN {<<>>}
  ELSE LET newest == {r \in rows : \A o \in rows : o.timestamp <= r.timestamp}
       IN  UNION {{<<r>> \o rest : rest \in OrderByTimestampDesc(rows \ {r})} :
                  r \in newest}

\* LIMIT ?
Limit(data, limit) ==
  IF IsNone(limit) \/ Val(limit) = 0 \/ Val(limit) >= Len(data)
    THEN data
    ELSE SubSeq(data, 1, Val(limit))

\* get_temperature_data_for_cold_room: the results the query can give.
get_temperature_data_for_cold_room(cold_room_id, limit) ==
  {[i \in DOMAIN data |->
      LET ago == Some(seconds_ago(data[i].timestamp))
      IN  [temperature |-> data[i].temperature,
           timestamp   |-> format_timestamp_indian(TimestampText(data[i].timestamp)),
           seconds_ago |-> Val(ago),
           is_active   |-> is_active(ago)]] :
   data \in {Limit(o, limit) : o \in OrderByTimestampDesc(RowsOf(cold_room_id))}}

\* download_cold_room_csv: the samples of an existing room, newest first.
GetTemperatureData ==
  /\ \E cold_room_id \in DOMAIN cold_rooms :
       \E result \in get_temperature_data_for_cold_room(cold_room_id, None) :
         view' = [kind |-> "rows", cold_room_id |-> cold_room_id, result |-> result]
  /\ UNCHANGED <<cold_rooms, next_room_id, temperature_data, esp32_errors, now,
                 req, nreq, nreadings, suspended, locations>>

\* user_dashboard, the latest status of one room of the location.
LatestStatus ==
  /\ \E id \in DOMAIN cold_rooms :
       \E latest_data \in get_temperature_data_for_cold_room(id, Some(1)) :
         view' = IF latest_data # <<>>
                   THEN LET latest == latest_data[1] IN
                        [kind |-> "latest", cold_room_id |-> id,
                         latest_temp |-> IF latest.is_active
                                           THEN Some(latest.temperature) ELSE None,
                         latest_time |-> Some(latest.timestamp),
                         is_sensor_active |-> latest.is_active]
                   ELSE [kind |-> "latest", cold_room_id |-> id,
                         latest_temp |-> None, latest_time |-> None,
                         is_sensor_active |-> FALSE]
  /\ UNCHANGED <<cold_rooms, next_room_id, temperature_data, esp32_errors, now,
                 req, nreq, nreadings, suspended, locations>>

-----------------------------------------------------------------------------
(***************************************************************************)
(* Python float arithmetic of the statistics.  A non-negative real below   *)
(* 2^11 is held in fixed point as four limbs <<a3, a2, a1, a0>> of 21 bits *)
(* (a3 unlimited), standing for a3 + a2/2^21 + a1/2^42 + a0/2^63; a float  *)
(* is [neg, mag] with mag such a number of at most 53 significant bits.    *)
(* Every quotient the statistics form is 0 or at least 1/16, so 63         *)
(* fraction bits hold every float that occurs.                             *)
(***************************************************************************)
FxLimb == 2^21

\* Carries (or borrows) propagated from the lowest limb upward.
FxNorm(a) ==
  LET l1 == a[3] + a[4] \div FxLimb
      l2 == a[2] + l1 \div FxLimb
      l3 == a[1] + l2 \div FxLimb
  IN  <<l3, l2 % FxLimb, l1 % FxLimb, a[4] % FxLimb>>

FxLess(a, b) ==
  \E i \in 1..4 : a[i] < b[i] /\ \A j \in 1..(i - 1) : a[j] = b[j]

RECURSIVE BitLength(_)
BitLength(n) == IF n = 0 THEN 0 ELSE 1 + BitLength(n \div 2)

\* Number of bits from the leading one down to the unit 2^-63.
FxBits(a) ==
  IF a[1] > 0 THEN 63 + BitLength(a[1])
  ELSE IF a[2] > 0 THEN 42 + BitLength(a[2])
  ELSE IF a[3] > 0 THEN 21 + BitLength(a[3])
  ELSE BitLength(a[4])

\* Round to nearest, ties to even, at 53 significant bits; sticky tells
\* that the exact value exceeds a by less than 2^-63.
FxRound(a, sticky) ==
  LET drop == FxBits(a) - 53 IN
  IF drop <= 0 THEN a
  ELSE LET low  == a[4] % 2^drop
           half == 2^(drop - 1)
           odd  == IF drop = 21 THEN a[3] % 2 = 1 ELSE (a[4] \div 2^drop) % 2 = 1
           up   == low > half \/ (low = half /\ (sticky \/ odd))
       IN  FxNorm(<<a[1], a[2], a[3], a[4] - low + (IF up THEN 2^drop ELSE 0)>>)

\* The float n / d of an integer n and a positive integer d.
FloatDiv(n, d) ==
  LET m  == IF n < 0 THEN 0 - n ELSE n
      r3 == m % d
      r2 == (r3 * FxLimb) % d
      r1 == (r2 * FxLimb) % d
      r0 == (r1 * FxLimb) % d
  IN  [neg |-> n < 0,
       mag |-> FxRound(<<m \div d, (r3 * FxLimb) \div d, (r2 * FxLimb) \div d,
                         (r1 * FxLimb) \div d>>, r0 # 0)]

\* The float x + y.
FloatAdd(x, y) ==
  LET sum  == [i \in 1..4 |-> x.mag[i] + y.mag[i]]
      xy   == [i \in 1..4 |-> x.mag[i] - y.mag[i]]
      yx   == [i \in 1..4 |-> y.mag[i] - x.mag[i]]
  IN  IF x.neg = y.neg THEN [neg |-> x.neg, mag |-> FxRound(FxNorm(sum), FALSE)]
      ELSE IF FxLess(x.mag, y.mag)
        THEN [neg |-> y.neg, mag |-> FxRound(FxNorm(yx), FALSE)]
        ELSE [neg |-> x.neg, mag |-> FxRound(FxNorm(xy), FALSE)]

\* x < y on floats.
FloatLess(x, y) ==
  IF x.neg = y.neg
    THEN IF x.neg THEN FxLess(y.mag, x.mag) ELSE FxLess(x.mag, y.mag)
    ELSE x.neg /\ (x.mag # <<0, 0, 0, 0>> \/ y.mag # <<0, 0, 0, 0>>)

\* The float 0.5 and the float -0.5.
Half(neg) == [neg |-> neg, mag |-> <<0, 2^20, 0, 0>>]

\* round(x, 1): the multiple of 0.1 nearest to the exact value of the
\* float x, ties to even, as its (signed) number of tenths.
round1(x) ==
  LET t    == FxNorm(<<10 * x.mag[1], 10 * x.mag[2], 10 * x.mag[3], 10 * x.mag[4]>>)
      frac == <<0, t[2], t[3], t[4]>>
      up   == FxLess(Half(FALSE).mag, frac)
                \/ (frac = Half(FALSE).mag /\ t[1] % 2 = 1)
      n    == t[1] + (IF up THEN 1 ELSE 0)
  IN  IF x.neg THEN 0 - n ELSE n

-----------------------------------------------------------------------------
(***************************************************************************)
(* get_24h_temperature_stats.                                              *)
(***************************************************************************)
RECURSIVE Sum(_)
Sum(s) == IF s = <<>> THEN 0 ELSE Head(s) + Sum(Tail(s))

Min(a, b) == IF a <= b THEN a ELSE b

\* Points kept for the mini chart.
CHART_POINTS == 48

\* Mutant of Last24Hours: the query without its time condition.
Last24Hours_AllRows(cold_room_id) == RowsOf(cold_room_id)

\* WHERE cold_room_id = ? AND datetime(timestamp) >= datetime('now', '-24 hours')
Last24Hours(cold_room_id) ==
  {r \in RowsOf(cold_room_id) : r.timestamp >= CurrentTimestamp - DAY_SECONDS}

\* Mutant of Trend: the newest reading is compared with the oldest.
Trend_FirstLast(temperatures) ==
  IF Len(temperatures) >= 2
    THEN LET recent_avg == FloatDiv(temperatures[1], 2)
             older_avg  == FloatDiv(temperatures[Len(temperatures)], 2)
         IN  IF FloatLess(FloatAdd(older_avg, Half(FALSE)), recent_avg) THEN "rising"
             ELSE IF FloatLess(recent_avg, FloatAdd(older_avg, Half(TRUE))) THEN "falling"
             ELSE "stable"
    ELSE "stable"

\* The trend of a list of temperatures (half degrees), newest first.
Trend(temperatures) ==
  IF Len(temperatures) >= 2
    THEN LET n          == Len(temperatures)
             k          == Min(5, n)
             recent_avg == FloatDiv(Sum(SubSeq(temperatures, 1, k)), 2 * k)
             older_avg  == FloatDiv(Sum(SubSeq(temperatures, n - k + 1, n)), 2 * k)
         IN  IF FloatLess(FloatAdd(older_avg, Half(FALSE)), recent_avg) THEN "rising"
             ELSE IF FloatLess(recent_avg, FloatAdd(older_avg, Half(TRUE))) THEN "falling"
             ELSE "stable"
    ELSE "stable"

\* The result for the rows data, in the order the query returned them.
Stats(data) ==
  IF data = <<>>
    THEN [avg_temp |-> None, min_temp |-> None, max_temp |-> None,
          readings_count |-> 0, trend |-> "stable", last_24h_data |-> <<>>]
    ELSE LET temperatures == [i \in DOMAIN data |-> data[i].temperature]
             avg_temp == FloatDiv(Sum(temperatures), 2 * Len(temperatures))
             min_temp == CHOOSE t \in {temperatures[i] : i \in DOMAIN temperatures} :
                           \A i \in DOMAIN temperatures : t <= temperatures[i]
             max_temp == CHOOSE t \in {temperatures[i] : i \in DOMAIN temperatures} :
                           \A i \in DOMAIN temperatures : t >= temperatures[i]
         IN  [avg_temp |-> Some(round1(avg_temp)),
              min_temp |-> Some(round1(FloatDiv(min_temp, 2))),
              max_temp |-> Some(round1(FloatDiv(max_temp, 2))),
              readings_count |-> Len(temperatures),
              trend |-> Trend(temperatures),
              last_24h_data |->
                [i \in 1..Min(CHART_POINTS, Len(temperatures)) |->
                   [temp |-> temperatures[i],
                    time |-> format_timestamp_indian(TimestampText(data[i].timestamp))]]]

\* get_24h_temperature_stats: the results the query can give.
get_24h_temperature_stats(cold_room_id) ==
  {Stats(data) : data \in OrderByTimestampDesc(Last24Hours(cold_room_id))}

\* user_dashboard, the 24-hour statistics of one room.
Stats24h ==
  /\ \E cold_room_id \in DOMAIN cold_rooms :
       \E stats_24h \in get_24h_temperature_stats(cold_room_id) :
         view' = [kind |-> "stats", cold_room_id |-> cold_room_id, stats |-> stats_24h]
  /\ UNCHANGED <<cold_rooms, next_room_id, temperature_data, esp32_errors, now,
                 req, nreq, nreadings, suspended, locations>>

-----------------------------------------------------------------------------
(***************************************************************************)
(* Export: export_cold_room_data and its helpers.  A date given in the     *)
(* query string is the text 'YYYY-MM-DD', held as <<year, month, day>>;    *)
(* SQLite compares it with DATE(timestamp) as text, which for zero-padded  *)
(* fields is the comparison of the fields from the left.                   *)
(***************************************************************************)
\* DATE(timestamp)
DateOf(timestamp_str) == <<timestamp_str[1], timestamp_str[2], timestamp_str[3]>>

\* strftime('%Y-%m-%d %H:00:00', timestamp)
HourOf(timestamp_str) ==
  <<timestamp_str[1], timestamp_str[2], timestamp_str[3], timestamp_str[4], 0, 0>>

\* a < b for two texts of the same layout.
TextLess(a, b) ==
  \E i \in DOMAIN a : a[i] < b[i] /\ \A j \in 1..(i - 1) : a[j] = b[j]

\* Mutant of Filtered: the upper bound excludes its own day.
Filtered_ToExclusive(cold_room_id, date_from, date_to) ==
  {r \in RowsOf(cold_room_id) :
     /\ IsNone(date_from) \/ ~TextLess(DateOf(TimestampText(r.timestamp)), Val(date_from))
     /\ IsNone(date_to) \/ TextLess(DateOf(TimestampText(r.timestamp)), Val(date_to))}

\* WHERE cold_room_id = ? [AND DATE(timestamp) >= ?] [AND DATE(timestamp) <= ?]
\* (`if date_from:` skips an absent or empty bound).
Filtered(cold_room_id, date_from, date_to) ==
  {r \in RowsOf(cold_room_id) :
     /\ IsNone(date_from) \/ ~TextLess(DateOf(TimestampText(r.timestamp)), Val(date_from))
     /\ IsNone(date_to) \/ ~TextLess(Val(date_to), DateOf(TimestampText(r.timestamp)))}

\* Mutant of Bucket: the hourly query groups by the date.
Bucket_ByDate(aggregation, timestamp_str) == DateOf(timestamp_str)

\* The group a row falls in: the GROUP BY expression of the aggregation.
Bucket(aggregation, timestamp_str) ==
  IF aggregation = "hourly" THEN HourOf(timestamp_str) ELSE DateOf(timestamp_str)

\* The temperatures of a set of rows, in rowid order.
RECURSIVE TemperaturesOf(_)
TemperaturesOf(rows) ==
  IF rows = {} THEN <<>>
  ELSE LET r == CHOOSE x \in rows : \A o \in rows : x.id <= o.id
       IN  <<r.temperature>> \o TemperaturesOf(rows \ {r})

\* ORDER BY timestamp DESC over the groups: their texts are distinct.
RECURSIVE OrderBucketsDesc(_)
OrderBucketsDesc(buckets) ==
  IF buckets = {} THEN <<>>
  ELSE LET b == CHOOSE x \in buckets : \A o \in buckets : ~TextLess(x, o)
       IN  <<b>> \o OrderBucketsDesc(buckets \ {b})

\* One row of an aggregated export: AVG, MIN, MAX, COUNT(*) of a group.
\* AVG is the float sum / count; MIN and MAX are stored values.
Aggregate(bucket, rows) ==
  LET temperatures == TemperaturesOf(rows) IN
  [timestamp   |-> bucket,
   temperature |-> FloatDiv(Sum(temperatures), 2 * Len(temperatures)),
   min_temp    |-> CHOOSE t \in {r.temperature : r \in rows} :
                     \A r \in rows : t <= r.temperature,
   max_temp    |-> CHOOSE t \in {r.temperature : r \in rows} :
                     \A r \in rows : t >= r.temperature,
   readings    |-> Len(temperatures)]

\* get_temperature_data_with_filters: the results the query can give.
get_temperature_data_with_filters(cold_room_id, date_from, date_to, aggregation) ==
  LET rows == Filtered(cold_room_id, date_from, date_to) IN
  IF aggregation = "full"
    THEN {[i \in DOMAIN data |->
             [timestamp   |-> TimestampText(data[i].timestamp),
              temperature |-> data[i].temperature]] :
          data \in OrderByTimestampDesc(rows)}
    ELSE LET bucket(r) == Bucket(aggregation, TimestampText(r.timestamp))
             order     == OrderBucketsDesc({bucket(r) : r \in rows})
         IN  {[i \in DOMAIN order |->
                 Aggregate(order[i], {r \in rows : bucket(r) = order[i]})]}

\* round(x, 2): the multiple of 0.01 nearest to the exact value of the
\* float x, ties to even, as its (signed) number of hundredths.
round2(x) ==
  LET t    == FxNorm(<<100 * x.mag[1], 100 * x.mag[2], 100 * x.mag[3], 100 * x.mag[4]>>)
      frac == <<0, t[2], t[3], t[4]>>
      up   == FxLess(Half(FALSE).mag, frac)
                \/ (frac = Half(FALSE).mag /\ t[1] % 2 = 1)
      n    == t[1] + (IF up THEN 1 ELSE 0)
  IN  IF x.neg THEN 0 - n ELSE n

\* export_to_csv: the file and the lines written under its header.
export_to_csv(data, aggregation) ==
  [outcome |-> "file", format |-> "csv",
   lines |-> IF aggregation = "full"
               THEN [i \in DOMAIN data |-> <<data[i].timestamp, data[i].temperature>>]
               ELSE [i \in DOMAIN data |->
                       <<data[i].timestamp, round2(data[i].temperature),
                         round2(FloatDiv(data[i].min_temp, 2)),
                         round2(FloatDiv(data[i].max_temp, 2)), data[i].readings>>]]

\* Mutant of export_to_excel: a failure while the workbook is built is not
\* caught.
export_to_excel_no_fallback(data, aggregation, pandas_available, build_fails) ==
  IF ~pandas_available THEN export_to_csv(data, aggregation)
  ELSE IF build_fails THEN [outcome |-> "error", format |-> "", lines |-> <<>>]
  ELSE [outcome |-> "file", format |-> "xlsx", lines |-> data]

\* export_to_excel: pandas_available is PANDAS_AVAILABLE, build_fails tells
\* that an exception is raised while the workbook is built.
export_to_excel(data, aggregation, pandas_available, build_fails) ==
  IF ~pandas_available THEN export_to_csv(data, aggregation)
  ELSE IF build_fails THEN export_to_csv(data, aggregation)
  ELSE [outcome |-> "file", format |-> "xlsx", lines |-> data]

\* A bound of the date range: absent, empty, or one of the two days.
ExportDates == {None, Some(<<>>), Some(<<2025, 1, 1>>), Some(<<2025, 1, 2>>)}
DateGiven(date) == ~IsNone(date) /\ Val(date) # <<>>
Aggregations == {"full", "hourly", "daily"}
Formats == {"csv", "excel"}

\* What the runtime does to a request: nothing, the query raises, pandas is
\* not installed, or building the workbook raises.
Runtimes ==
  {[retrieval_fails |-> FALSE, pandas_available |-> TRUE, build_fails |-> FALSE],
   [retrieval_fails |-> TRUE, pandas_available |-> TRUE, build_fails |-> FALSE],
   [retrieval_fails |-> FALSE, pandas_available |-> FALSE, build_fails |-> FALSE],
   [retrieval_fails |-> FALSE, pandas_available |-> TRUE, build_fails |-> TRUE]}

\* export_cold_room_data for an existing room.  When the query raises,
\* `except Exception` flashes 'Export failed' and redirects.
export_cold_room_data(cold_room_id, date_from, date_to, aggregation, format_type, runtime) ==
  /\ RoomExists(cold_room_id)
  /\ LET from == IF DateGiven(date_from) THEN date_from ELSE None
         to   == IF DateGiven(date_to) THEN date_to ELSE None
         request == [cold_room_id |-> cold_room_id,
                     date_from |-> date_from, date_to |-> date_to,
                     aggregation |-> aggregation, format_type |-> format_type,
                     runtime |-> runtime]
     IN  IF runtime.retrieval_fails
           THEN view' = [kind |-> "export", request |-> request, data |-> <<>>,
                         response |-> [outcome |-> "error", format |-> "", lines |-> <<>>]]
           ELSE \E data \in get_temperature_data_with_filters(cold_room_id, from, to,
                                                              aggregation) :
                  view' = [kind |-> "export", request |-> request, data |-> data,
                           response |-> IF format_type = "excel"
                                          THEN export_to_excel(data, aggregation,
                                                               runtime.pandas_available,
                                                               runtime.build_fails)
                                          ELSE export_to_csv(data, aggregation)]
  /\ UNCHANGED <<cold_rooms, next_room_id, temperature_data, esp32_errors, now,
                 req, nreq, nreadings, suspended, locations>>

-----------------------------------------------------------------------------
(***************************************************************************)
(* Error log: the queries over esp32_errors and resolve_esp32_error.       *)
(***************************************************************************)
\* The rows of esp32_errors.
ErrorRows == {esp32_errors[i] : i \in DOMAIN esp32_errors}

\* Ids a caller may name: those handed out and the next one.
ErrorIds == 1..(MaxReadings + 1)

\* Mutant of resolve_esp32_error: SET resolved = NOT resolved.
resolve_esp32_error_toggles(error_id) ==
  [i \in DOMAIN esp32_errors |->
     IF esp32_errors[i].id = error_id
       THEN [esp32_errors[i] EXCEPT !.resolved = ~@]
       ELSE esp32_errors[i]]

\* resolve_esp32_error: the table after UPDATE ... SET resolved = 1 WHERE id = ?
resolve_esp32_error(error_id) ==
  [i \in DOMAIN esp32_errors |->
     IF esp32_errors[i].id = error_id
       THEN [esp32_errors[i] EXCEPT !.resolved = TRUE]
       ELSE esp32_errors[i]]

\* A call of resolve_esp32_error; it returns True.
ResolveEsp32Error ==
  /\ \E error_id \in ErrorIds :
       /\ esp32_errors' = resolve_esp32_error(error_id)
       /\ view' = [kind |-> "resolve", error_id |-> error_id, result |-> TRUE]
  /\ UNCHANGED <<cold_rooms, next_room_id, temperature_data, now, req, nreq, nreadings, suspended, locations>>

\* Mutant of get_all_unresolved_errors: JOIN cold_rooms instead of LEFT JOIN.
get_all_unresolved_errors_inner_join ==
  {[i \in DOMAIN errors |->
      LET c == {id \in DOMAIN cold_rooms :
                  cold_rooms[id].sensor_id = Some(errors[i].sensor_id)}
          l == {id \in DOMAIN locations.rows :
                  \E room \in c : cold_rooms[room].location_id = id}
      IN  [id |-> errors[i].id,
           esp32_mac |-> errors[i].esp32_mac,
           sensor_id |-> errors[i].sensor_id,
           cold_room_name |-> cold_rooms[CHOOSE id \in c : TRUE].name,
           location_name |-> IF l = {} THEN "Unknown Location"
                             ELSE locations.rows[CHOOSE id \in l : TRUE],
           error_type |-> errors[i].error_type,
           error_message |-> errors[i].error_message,
           timestamp |-> format_timestamp_indian(TimestampText(errors[i].timestamp))]] :
   errors \in OrderByTimestampDesc(
               {e \in ErrorRows :
                  /\ ~e.resolved
                  /\ \E id \in DOMAIN cold_rooms :
                       cold_rooms[id].sensor_id = Some(e.sensor_id)})}

\* get_all_unresolved_errors: the results the query can give.  The LEFT JOINs
\* find at most one room for a sensor_id (UNIQUE) and at most one location
\* for the room; a name that is NULL is shown as 'Unknown ...'.
get_all_unresolved_errors ==
  {[i \in DOMAIN errors |->
      LET c == {id \in DOMAIN cold_rooms :
                  cold_rooms[id].sensor_id = Some(errors[i].sensor_id)}
          l == {id \in DOMAIN locations.rows :
                  \E room \in c : cold_rooms[room].location_id = id}
      IN  [id |-> errors[i].id,
           esp32_mac |-> errors[i].esp32_mac,
           sensor_id |-> errors[i].sensor_id,
           cold_room_name |-> IF c = {} THEN "Unknown Room"
                              ELSE cold_rooms[CHOOSE id \in c : TRUE].name,
           location_name |-> IF l = {} THEN "Unknown Location"
                             ELSE locations.rows[CHOOSE id \in l : TRUE],
           error_type |-> errors[i].error_type,
           error_message |-> errors[i].error_message,
           timestamp |-> format_timestamp_indian(TimestampText(errors[i].timestamp))]] :
   errors \in OrderByTimestampDesc({e \in ErrorRows : ~e.resolved})}

\* Mutant of get_esp32_errors_for_cold_room: WHERE resolved = 0 alone, the
\* errors of every sensor.
get_esp32_errors_for_cold_room_any_sensor(cold_room_id, limit) ==
  IF ~RoomExists(cold_room_id) \/ ~Truthy(cold_rooms[cold_room_id].sensor_id)
    THEN {<<>>}
    ELSE {[i \in DOMAIN errors |->
             [id |-> errors[i].id,
              esp32_mac |-> errors[i].esp32_mac,
              error_type |-> errors[i].error_type,
              error_message |-> errors[i].error_message,
              timestamp |-> format_timestamp_indian(TimestampText(errors[i].timestamp)),
              resolved |-> errors[i].resolved]] :
          errors \in {Limit(o, Some(limit)) :
                        o \in OrderByTimestampDesc({e \in ErrorRows : ~e.resolved})}}

\* get_esp32_errors_for_cold_room: the results the queries can give.
get_esp32_errors_for_cold_room(cold_room_id, limit) ==
  IF ~RoomExists(cold_room_id) \/ ~Truthy(cold_rooms[cold_room_id].sensor_id)
    THEN {<<>>}
    ELSE {[i \in DOMAIN errors |->
             [id |-> errors[i].id,
              esp32_mac |-> errors[i].esp32_mac,
              error_type |-> errors[i].error_type,
              error_message |-> errors[i].error_message,
              timestamp |-> format_timestamp_indian(TimestampText(errors[i].timestamp)),
              resolved |-> errors[i].resolved]] :
          errors \in {Limit(o, Some(limit)) :
                        o \in OrderByTimestampDesc(
                               {e \in ErrorRows :
                                  /\ e.sensor_id = Val(cold_rooms[cold_room_id].sensor_id)
                                  /\ ~e.resolved})}}

\* The admin overview of the unresolved errors.
GetAllUnresolvedErrors ==
  /\ \E result \in get_all_unresolved_errors :
       view' = [kind |-> "unresolved", result |-> result]
  /\ UNCHANGED <<cold_rooms, next_room_id, temperature_data, esp32_errors, now,
                 req, nreq, nreadings, suspended, locations>>

\* The limits a caller passes: one record, or the three of the dashboard.
ErrorLimits == {1, 3}

\* A call of get_esp32_errors_for_cold_room, as user_dashboard makes for an
\* admin with limit=3.
GetEsp32ErrorsForColdRoom ==
  /\ \E cold_room_id \in RoomIds, limit \in ErrorLimits :
       \E result \in get_esp32_errors_for_cold_room(cold_room_id, limit) :
         view' = [kind |-> "room_errors", cold_room_id |-> cold_room_id,
                  limit |-> limit, result |-> result]
  /\ UNCHANGED <<cold_rooms, next_room_id, temperature_data, esp32_errors, now,
                 req, nreq, nreadings, suspended, locations>>

-----------------------------------------------------------------------------
(***************************************************************************)
(* user_dashboard: the rooms of the user's location and the combined       *)
(* statistics of the location.  Of combined_stats, minutes_ago (the age of *)
(* last_update, for display) is left out.                                  *)
(***************************************************************************)
\* get_cold_rooms_by_location: the ids of the rooms of a location.
get_cold_rooms_by_location(location_id) ==
  {id \in DOMAIN cold_rooms : cold_rooms[id].location_id = location_id}

\* The ids of a set in the order of the table.
RECURSIVE Ascending(_)
Ascending(ids) ==
  IF ids = {} THEN <<>>
  ELSE LET first == CHOOSE i \in ids : \A j \in ids : i <= j
       IN  <<first>> \o Ascending(ids \ {first})

\* The list the loop over the rooms builds by appending lists[id] in turn.
RECURSIVE Collect(_, _)
Collect(order, lists) ==
  IF order = <<>> THEN <<>>
  ELSE lists[Head(order)] \o Collect(Tail(order), lists)

\* The status fields of room_dict from the newest row (limit=1); `latest`
\* is the loop's local of that name, kept beside the fields of the room.
LatestOf(latest_data) ==
  IF latest_data # <<>>
    THEN [latest_temp |-> IF latest_data[1].is_active
                            THEN Some(latest_data[1].temperature) ELSE None,
          latest_time |-> Some(latest_data[1].timestamp),
          is_sensor_active |-> latest_data[1].is_active,
          latest |-> Some(latest_data[1])]
    ELSE [latest_temp |-> None, latest_time |-> None, is_sensor_active |-> FALSE,
          latest |-> None]

\* room_dict.update(stats_24h)
Update(room_dict, stats_24h) ==
  [key \in DOMAIN room_dict \cup DOMAIN stats_24h |->
     IF key \in DOMAIN stats_24h THEN stats_24h[key] ELSE room_dict[key]]

\* round(sum(temps) / len(temps), 1) if temps else None, in tenths.
MeanOrNone(temps) ==
  IF temps = <<>> THEN None
  ELSE Some(round1(FloatDiv(Sum(temps), 2 * Len(temps))))

\* a < b for two seconds_ago values.
AgoLess(a, b) == a[1] < b[1] \/ (a[1] = b[1] /\ a[2] < b[2])

\* A seconds_ago that Python takes for false: None or 0.0.
AgoFalsy(ago) == IsNone(ago) \/ Val(ago) = <<0, 0>>

\* (latest['seconds_ago'] or 0) < (most_recent_minutes_ago or float('inf'))
MoreRecent(ago, most_recent_minutes_ago) ==
  \/ AgoFalsy(most_recent_minutes_ago)
  \/ AgoLess(IF AgoFalsy(ago) THEN <<0, 0>> ELSE Val(ago), Val(most_recent_minutes_ago))

\* most_recent_time and most_recent_minutes_ago after the loop has visited
\* the rooms of `order`, from their values before.
RECURSIVE MostRecent(_, _, _)
MostRecent(order, room_data, most_recent) ==
  IF order = <<>> THEN most_recent
  ELSE LET room == room_data[Head(order)]
           kept == IF /\ room.is_sensor_active
                      /\ \/ IsNone(most_recent.time)
                         \/ MoreRecent(Some(Val(room.latest).seconds_ago),
                                       most_recent.minutes_ago)
                     THEN [time |-> Some(Val(room.latest).timestamp),
                           minutes_ago |-> Some(Val(room.latest).seconds_ago)]
                     ELSE most_recent
       IN  MostRecent(Tail(order), room_data, kept)

\* combined_stats, from the room_dict of every room.
combined_stats(room_data) ==
  LET order == Ascending(DOMAIN room_data)
      all_active_temps ==
        Collect(order, [id \in DOMAIN room_data |->
                          IF room_data[id].is_sensor_active
                            THEN <<Val(room_data[id].latest_temp)>> ELSE <<>>])
      all_24h_temps ==
        Collect(order, [id \in DOMAIN room_data |->
                          [i \in DOMAIN room_data[id].last_24h_data |->
                             room_data[id].last_24h_data[i].temp]])
      values == {all_24h_temps[i] : i \in DOMAIN all_24h_temps}
  IN  [live_temp |-> MeanOrNone(all_active_temps),
       avg_24h |-> MeanOrNone(all_24h_temps),
       min_24h |-> IF all_24h_temps = <<>> THEN None
                   ELSE Some(round1(FloatDiv(
                          CHOOSE t \in values : \A o \in values : t <= o, 2))),
       max_24h |-> IF all_24h_temps = <<>> THEN None
                   ELSE Some(round1(FloatDiv(
                          CHOOSE t \in values : \A o \in values : t >= o, 2))),
       last_update |-> MostRecent(order, room_data,
                                  [time |-> None, minutes_ago |-> None]).time,
       online_count |-> Cardinality({id \in DOMAIN room_data :
                                       room_data[id].is_sensor_active}),
       total_count |-> Cardinality(DOMAIN room_data)]

\* room_data: the room_dict of every room of the set, for each result the
\* queries of the loop can give.
RECURSIVE RoomData(_)
RoomData(rooms) ==
  IF rooms = {} THEN {<<>>}
  ELSE LET room == CHOOSE id \in rooms : \A other \in rooms : id >= other
       IN  {[id \in rooms |-> IF id = room THEN Update(LatestOf(latest_data), stats_24h)
                                            ELSE room_data[id]] :
              room_data \in RoomData(rooms \ {room}),
              latest_data \in get_temperature_data_for_cold_room(room, Some(1)),
              stats_24h \in get_24h_temperature_stats(room)}

\* The dashboard of a user of location 1.
user_dashboard ==
  /\ \E room_data \in RoomData(get_cold_rooms_by_location(1)) :
       view' = [kind |-> "dashboard", cold_rooms |-> room_data,
                combined_stats |-> combined_stats(room_data)]
  /\ UNCHANGED <<cold_rooms, next_room_id, temperature_data, esp32_errors, now,
                 req, nreq, nreadings, suspended, locations>>

-----------------------------------------------------------------------------
\* init_db: empty tables.
Init ==
  /\ cold_rooms = <<>>
  /\ next_room_id = 1
  /\ temperature_data = <<>>
  /\ esp32_errors = <<>>
  /\ now = 0
  /\ req = Idle
  /\ nreq = 0
  /\ nreadings = 0
  /\ suspended = Idle
  /\ locations = OneLocation
  /\ view = NoView

\* add_new_cold_room: for a location that exists.
AddColdRoom ==
  \E name \in Names, location_id \in Locations \cap DOMAIN locations.rows,
     sensor_id \in {None} \cup {Some(s) : s \in Sensors} :
       add_cold_room(name, location_id, sensor_id)

UpdateColdRoom ==
  \E cold_room_id \in RoomIds, name \in Names,
     sensor_id \in {None} \cup {Some(s) : s \in Sensors} :
       update_cold_room(cold_room_id, name, sensor_id)

DeleteColdRoom == \E cold_room_id \in RoomIds : delete_cold_room(cold_room_id)

ReceiveEsp32Data == \E data \in Requests : Receive(data)

Next ==
  \/ AddColdRoom
  \/ UpdateColdRoom
  \/ DeleteColdRoom
  \/ ReceiveEsp32Data
  \/ ProcessReading
  \/ Tick(IngestInstants)

Spec == Init /\ [][Next]_vars

-----------------------------------------------------------------------------
(***************************************************************************)
(* The read side.  Two registered rooms receive well-formed readings, one  *)
(* per request, while the clock passes the 15-minute and the 24-hour       *)
(* boundary and the read requests are served.                              *)
(***************************************************************************)
TwoRooms ==
  [id \in 1..2 |-> [name |-> "A", location_id |-> 1,
                    sensor_id |-> Some(IF id = 1 THEN "s1" ELSE "s2")]]

InitRead ==
  /\ cold_rooms = TwoRooms
  /\ next_room_id = 3
  /\ temperature_data = <<>>
  /\ esp32_errors = <<>>
  /\ now = 0
  /\ req = Idle
  /\ nreq = 0
  /\ nreadings = 0
  /\ suspended = Idle
  /\ locations = OneLocation
  /\ view = NoView

\* Bodies carrying one well-formed reading.
ReadingRequests ==
  {data \in Requests :
     /\ data.has_json /\ Truthy(data.esp32_mac)
     /\ data.readings.kind = "list" /\ Len(data.readings.items) = 1
     /\ data.readings.items[1].is_object
     /\ IsWellFormed(data.readings.items[1].sensor_id, data.readings.items[1].temperature)}

ReceiveReading == \E data \in ReadingRequests : Receive(data)

NextRead ==
  \/ ReceiveReading
  \/ ProcessReading
  \/ Tick(ReadInstants)
  \/ GetTemperatureData
  \/ LatestStatus
  \/ Stats24h

SpecRead == InitRead /\ [][NextRead]_vars

-----------------------------------------------------------------------------
(***************************************************************************)
(* Ingestion beside the administration of the rooms: an iteration of the   *)
(* handler is two steps, the lookup of the sensor and the append of the    *)
(* sample, each in a connection of its own, and an update or a delete of a *)
(* room by another thread may come between them.                           *)
(***************************************************************************)
NextRace ==
  \/ ReceiveReading
  \/ LookupSensor
  \/ AppendSample
  \/ LogReading
  \/ UpdateColdRoom
  \/ DeleteColdRoom

SpecRace == InitRead /\ [][NextRace]_vars

-----------------------------------------------------------------------------
(***************************************************************************)
(* The status of a room as the clock advances: readings are accepted and   *)
(* the status is read at the start of a second, a millisecond after it,    *)
(* and a quarter of an hour and a millisecond after an earlier instant.    *)
(***************************************************************************)
LiveInstants == {1000, 900001, 901001, 1801002}

NextLive ==
  \/ ReceiveReading
  \/ ProcessReading
  \/ Tick(LiveInstants)
  \/ LatestStatus

SpecLive == InitRead /\ [][NextLive]_vars

-----------------------------------------------------------------------------
(***************************************************************************)
(* The statistics as a function of the stored series: one room holding up  *)
(* to MaxWindow samples written one second apart, read one second after    *)
(* the 24 hours of the instant 0 have passed.                              *)
(***************************************************************************)
StatsInstant == (DAY_SECONDS + 1) * 1000

\* The series of n samples whose oldest was written at second `first`.
Series(temps, first) ==
  [i \in DOMAIN temps |-> [id |-> i, cold_room_id |-> 1, temperature |-> temps[i],
                           timestamp |-> first + i - 1]]

InitStats ==
  /\ cold_rooms = TwoRooms
  /\ next_room_id = 3
  /\ \E n \in 0..MaxWindow, first \in {0, 1} :
       \E temps \in [1..n -> Temps] : temperature_data = Series(temps, first)
  /\ esp32_errors = <<>>
  /\ now = StatsInstant
  /\ req = Idle
  /\ nreq = 0
  /\ nreadings = 0
  /\ suspended = Idle
  /\ locations = OneLocation
  /\ view = NoView

NextStats == Stats24h

SpecStats == InitStats /\ [][NextStats]_vars

-----------------------------------------------------------------------------
(***************************************************************************)
(* The export as a function of the stored series: up to MaxExport samples  *)
(* of the two rooms, written in two hours of one day and on the next day.  *)
(***************************************************************************)
ExportSeconds == {0, 1800, 3600, DAY_SECONDS}

\* Tables whose timestamps never decrease along the rowids.
ExportStores ==
  {data \in UNION {[1..n -> [cold_room_id : 1..2, temperature : ReadingTemps,
                             timestamp : ExportSeconds]] : n \in 0..MaxExport} :
     \A i \in 1..(Len(data) - 1) : data[i].timestamp <= data[i + 1].timestamp}

InitExport ==
  /\ cold_rooms = TwoRooms
  /\ next_room_id = 3
  /\ \E data \in ExportStores :
       temperature_data = [i \in DOMAIN data |->
                             [id |-> i, cold_room_id |-> data[i].cold_room_id,
                              temperature |-> data[i].temperature,
                              timestamp |-> data[i].timestamp]]
  /\ esp32_errors = <<>>
  /\ now = StatsInstant
  /\ req = Idle
  /\ nreq = 0
  /\ nreadings = 0
  /\ suspended = Idle
  /\ locations = OneLocation
  /\ view = NoView

\* One export request, which may be repeated with the same parameters in
\* the same runtime.
FirstExport ==
  /\ view = NoView
  /\ \E cold_room_id \in RoomIds, date_from \in ExportDates, date_to \in ExportDates,
        aggregation \in Aggregations, format_type \in Formats, runtime \in Runtimes :
          export_cold_room_data(cold_room_id, date_from, date_to, aggregation,
                                format_type, runtime)

RepeatExport ==
  /\ view # NoView
  /\ export_cold_room_data(view.request.cold_room_id, view.request.date_from,
                           view.request.date_to, view.request.aggregation,
                           view.request.format_type, view.request.runtime)

NextExport ==
  \/ FirstExport
  \/ RepeatExport

SpecExport == InitExport /\ [][NextExport]_vars

-----------------------------------------------------------------------------
(***************************************************************************)
(* The error log.  Readings arrive one per request, well-formed or not,    *)
(* for a sensor that may be registered before or after and may pass from   *)
(* room to room; the errors are listed and resolved.                       *)
(***************************************************************************)
\* Bodies carrying one reading without a sensor_id or for the sensor s1.
ErrorRequests ==
  {data \in Requests :
     /\ data.has_json /\ Truthy(data.esp32_mac)
     /\ data.readings.kind = "list" /\ Len(data.readings.items) = 1
     /\ data.readings.items[1].is_object
     /\ data.readings.items[1].sensor_id \in {None, Some("s1")}
     /\ data.readings.items[1].temperature \in {None, Some(5)}}

ReceiveErrorReading == \E data \in ErrorRequests : Receive(data)

NextErrors ==
  \/ AddColdRoom
  \/ UpdateColdRoom
  \/ DeleteColdRoom
  \/ ReceiveErrorReading
  \/ ProcessReading
  \/ Tick(IngestInstants)
  \/ ResolveEsp32Error
  \/ GetAllUnresolvedErrors
  \/ GetEsp32ErrorsForColdRoom

SpecErrors == Init /\ [][NextErrors]_vars

-----------------------------------------------------------------------------
(***************************************************************************)
(* Reuse of a sensor.  Room 1 holds the sensor s1, for which an error was  *)
(* logged before the room was registered; rooms are deleted and added      *)
(* while readings arrive.                                                  *)
(***************************************************************************)
\* The error logged for the reading of s1 that came before room 1.
EarlierError ==
  [id |-> 1, esp32_mac |-> "m1", sensor_id |-> "s1",
   error_type |-> "UNREGISTERED_SENSOR",
   error_message |-> <<"Unregistered sensor_id", Some("s1")>>,
   timestamp |-> 0, resolved |-> FALSE]

InitReuse ==
  /\ cold_rooms = [id \in {1} |-> TwoRooms[id]]
  /\ next_room_id = 2
  /\ temperature_data = <<>>
  /\ esp32_errors = <<EarlierError>>
  /\ now = 0
  /\ req = Idle
  /\ nreq = 0
  /\ nreadings = 0
  /\ suspended = Idle
  /\ locations = OneLocation
  /\ view = NoView

NextReuse ==
  \/ AddColdRoom
  \/ DeleteColdRoom
  \/ ReceiveReading
  \/ ProcessReading
  \/ Tick(IngestInstants)

SpecReuse == InitReuse /\ [][NextReuse]_vars

-----------------------------------------------------------------------------
(***************************************************************************)
(* The registry: rooms are added, edited and deleted from the empty table  *)
(* on, and readings resolve their sensor.                                  *)
(***************************************************************************)
NextRegistry ==
  \/ AddColdRoom
  \/ UpdateColdRoom
  \/ DeleteColdRoom
  \/ ReceiveReading
  \/ ProcessReading

SpecRegistry == Init /\ [][NextRegistry]_vars

-----------------------------------------------------------------------------
(***************************************************************************)
(* Ingestion with a store that may fail while an error is logged.          *)
(***************************************************************************)
NextFaults ==
  \/ AddColdRoom
  \/ ReceiveEsp32Data
  \/ ProcessReadingFaulty

SpecFaults == Init /\ [][NextFaults]_vars

-----------------------------------------------------------------------------
(***************************************************************************)
(* The dashboard as a function of the stored samples: room 1 holds a       *)
(* series of consecutive seconds, empty, short or as long as the chart and *)
(* one longer; room 2 holds at most one sample; the dashboard is asked     *)
(* while the samples are fresh, a quarter of an hour old and a day old.    *)
(***************************************************************************)
DashboardLengths == {0, 1, 2, CHART_POINTS, CHART_POINTS + 1}

DashboardInstants == {50000, 900000, 902000, 951000, 86400000, 86401000}

\* A series of room 1 whose oldest sample may differ from the later ones,
\* followed by the samples of room 2.
DashboardStores ==
  UNION {{Series([i \in 1..n |-> IF i = 1 THEN oldest ELSE later], first) \o other :
            oldest \in Temps, later \in Temps,
            other \in {<<>>} \cup
                      {<<[id |-> n + 1, cold_room_id |-> 2, temperature |-> t,
                          timestamp |-> first + n]>> : t \in Temps}} :
         n \in DashboardLengths, first \in {0, 2}}

InitDashboard ==
  /\ cold_rooms = TwoRooms
  /\ next_room_id = 3
  /\ temperature_data \in DashboardStores
  /\ esp32_errors = <<>>
  /\ now \in DashboardInstants
  /\ \A i \in DOMAIN temperature_data : temperature_data[i].timestamp * 1000 <= now
  /\ req = Idle
  /\ nreq = 0
  /\ nreadings = 0
  /\ suspended = Idle
  /\ locations = OneLocation
  /\ view = NoView

NextDashboard == user_dashboard

SpecDashboard == InitDashboard /\ [][NextDashboard]_vars

-----------------------------------------------------------------------------
(***************************************************************************)
(* The most recent reading of the dashboard: up to MaxRecent samples of    *)
(* the two rooms, written in the order of their timestamps, and a          *)
(* dashboard asked at the second of a sample, just after it, and around    *)
(* the quarter of an hour after it.                                        *)
(***************************************************************************)
RecentSeconds == {0, 60, 120}

RecentInstants == {60000, 120000, 120001, 899000, 961000, 1021000}

RecentStores ==
  {data \in UNION {[1..n -> [cold_room_id : 1..2, temperature : ReadingTemps,
                             timestamp : RecentSeconds]] : n \in 0..MaxRecent} :
     \A i \in 1..(Len(data) - 1) : data[i].timestamp <= data[i + 1].timestamp}

InitRecent ==
  /\ cold_rooms = TwoRooms
  /\ next_room_id = 3
  /\ \E data \in RecentStores :
       temperature_data = [i \in DOMAIN data |->
                             [id |-> i, cold_room_id |-> data[i].cold_room_id,
                              temperature |-> data[i].temperature,
                              timestamp |-> data[i].timestamp]]
  /\ esp32_errors = <<>>
  /\ now \in RecentInstants
  /\ \A i \in DOMAIN temperature_data : temperature_data[i].timestamp * 1000 <= now
  /\ req = Idle
  /\ nreq = 0
  /\ nreadings = 0
  /\ suspended = Idle
  /\ locations = OneLocation
  /\ view = NoView

NextRecent == user_dashboard

SpecRecent == InitRecent /\ [][NextRecent]_vars

-----------------------------------------------------------------------------
(***************************************************************************)
(* Concurrent ingestion.  Room 1 holds the sensor s1 and the registry does *)
(* not change; a request of one or two readings has been received and its  *)
(* thread is suspended before the first iteration, and a second request    *)
(* arrives; the two handlers interleave iteration by iteration.            *)
(***************************************************************************)
\* Readings that are accepted (s1), not registered (s2) or malformed.
ConcurrentReadings ==
  {rd \in ObjectReadings :
     \/ rd.sensor_id = Some("s1") /\ rd.temperature # None
     \/ rd.sensor_id = Some("s2") /\ rd.temperature = Some(5)
     \/ rd.sensor_id = None /\ rd.temperature = Some(5)}

ConcurrentRequests ==
  {data \in Requests :
     /\ data.has_json /\ Truthy(data.esp32_mac)
     /\ data.readings.kind = "list" /\ Len(data.readings.items) >= 1
     /\ \A i \in DOMAIN data.readings.items :
          data.readings.items[i] \in ConcurrentReadings}

\* The handler of a request that has passed the envelope check.
InFlight(data) ==
  [Idle EXCEPT !.data = data, !.pc = "loop", !.esp32_mac = Val(data.esp32_mac),
               !.readings = data.readings.items]

InitConcurrent ==
  /\ cold_rooms = [id \in {1} |-> TwoRooms[id]]
  /\ next_room_id = 2
  /\ temperature_data = <<>>
  /\ esp32_errors = <<>>
  /\ now = 0
  /\ req = Idle
  /\ nreq = 0
  /\ nreadings = 0
  /\ suspended \in {InFlight(data) : data \in ConcurrentRequests}
  /\ locations = OneLocation
  /\ view = NoView

\* The second request starts in a thread of its own.
ReceiveConcurrent ==
  /\ req.pc = "idle"
  /\ \E data \in ConcurrentRequests : Receive(data)

NextConcurrent ==
  \/ ReceiveConcurrent
  \/ ProcessReading
  \/ Switch

SpecConcurrent == InitConcurrent /\ [][NextConcurrent]_vars

-----------------------------------------------------------------------------
(***************************************************************************)
(* The error log under every operation: readings are rejected and logged   *)
(* while rooms and locations are added, edited and deleted, sensors pass   *)
(* from room to room, and the errors are listed and resolved.              *)
(***************************************************************************)
NextLog ==
  \/ AddColdRoom
  \/ UpdateColdRoom
  \/ DeleteColdRoom
  \/ AddLocation
  \/ UpdateLocation
  \/ DeleteLocation
  \/ ReceiveErrorReading
  \/ ProcessReading
  \/ Tick(IngestInstants)
  \/ ResolveEsp32Error
  \/ GetAllUnresolvedErrors
  \/ GetEsp32ErrorsForColdRoom

SpecLog == Init /\ [][NextLog]_vars

-----------------------------------------------------------------------------
(***************************************************************************)
(* Properties of the ingestion loop.  A step that changes `req` while the  *)
(* handler is in its loop is one iteration; Reading is the element it      *)
(* handles.                                                                *)
(***************************************************************************)
Iteration == req.pc = "loop" /\ req' # req
Reading == req.readings[req.i + 1]

HasSensor(reading) == reading.sensor_id \notin {None, Some("")}
HasTemperature(reading) == reading.temperature # None

\* The rooms holding a sensor identifier.
Holders(reading) ==
  {id \in DOMAIN cold_rooms :
     cold_rooms[id].sensor_id # None /\ cold_rooms[id].sensor_id = reading.sensor_id}

AppendedOne(old, new) == Len(new) = Len(old) + 1 /\ SubSeq(new, 1, Len(old)) = old
Last(seq) == seq[Len(seq)]

\* The handler's counts after the step: its locals, or the numbers of the
\* message once it has answered.
AcceptedAfter ==
  IF req'.pc = "done" THEN req'.message.processed ELSE req'.processed_count
RejectedAfter ==
  IF req'.pc = "done"
    THEN (IF req'.message.errors = None THEN 0 ELSE Val(req'.message.errors))
    ELSE req'.error_count

\* The iteration ended normally: the loop goes on with the next element, or
\* the batch is over and answered with success.
Continues ==
  IF req.i + 1 < Len(req.readings)
    THEN req'.pc = "loop" /\ req'.i = req.i + 1 /\ req'.readings = req.readings
    ELSE req'.pc = "done" /\ req'.http = 200

\* C1: an iteration on a reading with a non-empty sensor_id held by a room R
\* and a temperature appends exactly one sample (R, temperature, current
\* second), adds 1 to the accepted count and writes no error record.
C1_ValidReadingStored ==
  [][(Iteration /\ Reading.is_object /\ HasSensor(Reading) /\ HasTemperature(Reading)
        /\ Holders(Reading) # {})
     => /\ AppendedOne(temperature_data, temperature_data')
        /\ Last(temperature_data').cold_room_id \in Holders(Reading)
        /\ Last(temperature_data').temperature = Val(Reading.temperature)
        /\ Last(temperature_data').timestamp = now \div 1000
        /\ AcceptedAfter = req.processed_count + 1
        /\ RejectedAfter = req.error_count
        /\ esp32_errors' = esp32_errors]_vars

\* C1 witness: the first reading of a batch, for sensor s1 at 0 degrees, has
\* been stored and counted, and the loop goes on.
C1_Witness ==
  /\ req.pc = "loop" /\ req.i = 1 /\ req.processed_count = 1
  /\ req.readings[1].sensor_id = Some("s1") /\ req.readings[1].temperature = Some(0)
  /\ Len(temperature_data) = req.rows0 + 1
  /\ Last(temperature_data).temperature = 0
  /\ Len(esp32_errors) = req.errors0

\* C2: an iteration on a reading with a non-empty sensor_id that no room
\* holds and a temperature appends exactly one UNREGISTERED_SENSOR record
\* carrying the device id and the sensor_id, appends no sample, adds 1 to the
\* rejected count and goes on with the rest of the batch.
C2_UnregisteredLogged ==
  [][(Iteration /\ Reading.is_object /\ HasSensor(Reading) /\ HasTemperature(Reading)
        /\ Holders(Reading) = {})
     => /\ AppendedOne(esp32_errors, esp32_errors')
        /\ Last(esp32_errors').error_type = "UNREGISTERED_SENSOR"
        /\ Last(esp32_errors').esp32_mac = Val(req.data.esp32_mac)
        /\ Last(esp32_errors').sensor_id = Val(Reading.sensor_id)
        /\ Last(esp32_errors').resolved = FALSE
        /\ temperature_data' = temperature_data
        /\ RejectedAfter = req.error_count + 1
        /\ AcceptedAfter = req.processed_count
        /\ Continues]_vars

\* C2 witness: the first reading of a two-reading batch named a sensor no
\* room holds while another room exists; it was logged and the loop goes on.
C2_Witness ==
  /\ req.pc = "loop" /\ req.i = 1 /\ req.error_count = 1 /\ Len(req.readings) = 2
  /\ req.readings[1].sensor_id = Some("s2") /\ req.readings[1].temperature # None
  /\ DOMAIN cold_rooms # {}
  /\ Len(esp32_errors) = req.errors0 + 1
  /\ Last(esp32_errors).error_type = "UNREGISTERED_SENSOR"
  /\ Len(temperature_data) = req.rows0

\* C3: an iteration on a reading whose sensor_id is absent or empty, or whose
\* temperature is absent, appends exactly one MALFORMED_DATA record whose
\* identifier is the given sensor_id, or "UNKNOWN" when there is none, appends
\* no sample, does not consult the registry and adds 1 to the rejected count;
\* a reading with a sensor_id and a temperature, 0 included, is not logged as
\* malformed.
C3_MalformedLogged ==
  [][(Iteration /\ Reading.is_object)
     => IF ~HasSensor(Reading) \/ ~HasTemperature(Reading)
          THEN /\ AppendedOne(esp32_errors, esp32_errors')
               /\ Last(esp32_errors').error_type = "MALFORMED_DATA"
               /\ Last(esp32_errors').sensor_id =
                    (IF HasSensor(Reading) THEN Val(Reading.sensor_id) ELSE "UNKNOWN")
               /\ temperature_data' = temperature_data
               /\ req'.lookups = req.lookups
               /\ RejectedAfter = req.error_count + 1
          ELSE \/ esp32_errors' = esp32_errors
               \/ Last(esp32_errors').error_type # "MALFORMED_DATA"]_vars

\* C3 witness: a reading with a sensor_id and no temperature has been logged
\* as malformed under its own sensor_id, without a registry lookup, although
\* a room holds that sensor_id.
C3_Witness ==
  /\ req.pc = "loop" /\ req.i = 1 /\ req.error_count = 1 /\ req.lookups = 0
  /\ req.readings[1].sensor_id = Some("s1") /\ req.readings[1].temperature = None
  /\ \E id \in DOMAIN cold_rooms : cold_rooms[id].sensor_id = Some("s1")
  /\ Len(esp32_errors) = req.errors0 + 1
  /\ Last(esp32_errors).error_type = "MALFORMED_DATA"
  /\ Last(esp32_errors).sensor_id = "s1"

\* C4 (as claimed): every element of a batch, whatever its shape, is handled
\* and the loop goes on after it; an element that is not stored as a sample
\* yields an error record.
C4_NoReadingAbortsBatch ==
  [][Iteration
     => /\ Continues
        /\ \/ AppendedOne(temperature_data, temperature_data')
              /\ esp32_errors' = esp32_errors
           \/ AppendedOne(esp32_errors, esp32_errors')
              /\ temperature_data' = temperature_data]_vars

\* A receive step, and the body it received.
Received == nreq' = nreq + 1
Body == req'.data
IsCollection(rd) == rd.kind = "list"

\* C5 (as claimed): a request without esp32_mac, or whose readings are absent,
\* null or not a collection, is answered with a client error and
\* status "error", and leaves both tables as they were.
C5_EnvelopeRejected ==
  [][(Received /\ Body.has_json
        /\ (Body.esp32_mac = None \/ ~IsCollection(Body.readings)))
     => /\ req'.pc = "done"
        /\ req'.http \in 400..499
        /\ req'.status = "error"
        /\ req'.message.text # ""
        /\ temperature_data' = temperature_data
        /\ esp32_errors' = esp32_errors]_vars

\* C6 (as claimed): a request with a device id and a readings collection of
\* any length is answered 200 "success" with "Processed N readings." and
\* " M errors logged." exactly when M > 0, N the samples and M the error
\* records the request appended, N + M the number of readings.
C6_AlwaysSuccess ==
  (req.pc = "done" /\ req.data.has_json /\ Truthy(req.data.esp32_mac)
     /\ IsCollection(req.data.readings))
  => /\ req.http = 200
     /\ req.status = "success"
     /\ req.message.text = "Processed"
     /\ req.message.processed = Len(temperature_data) - req.rows0
     /\ LET M == Len(esp32_errors) - req.errors0 IN
          /\ req.message.errors = (IF M > 0 THEN Some(M) ELSE None)
          /\ req.message.processed + M = Len(req.data.readings.items)

-----------------------------------------------------------------------------
(***************************************************************************)
(* Properties of the read side.  A read result stays in `view` for the     *)
(* one state that follows the read, so the clock and the tables of that    *)
(* state are those the read saw.                                            *)
(***************************************************************************)
\* The second a displayed timestamp stands for.
SecondsOf(time) == (time[1] - 1) * DAY_SECONDS + time[4] * 3600 + time[5] * 60 + time[6]

\* The age in seconds of a sample written at second `timestamp`.
Age(timestamp) == CurrentTimestamp - timestamp

\* The samples of a room that no other sample of the room is newer than.
Newest(cold_room_id) ==
  {r \in RowsOf(cold_room_id) : \A o \in RowsOf(cold_room_id) : o.timestamp <= r.timestamp}

\* C7: every sample returned by the store read is flagged live exactly when
\* its age (now minus its timestamp, at the read) is at most 900 seconds:
\* 900 s is live, 901 s is not.
C7_LiveIffAtMost900 ==
  view.kind = "rows" =>
    \A i \in DOMAIN view.result :
      view.result[i].is_active <=> Age(SecondsOf(view.result[i].timestamp)) <= LIVE_SECONDS

\* C8: the latest status of a room carries a temperature exactly when the
\* room's newest sample is live (age <= 900 s); with a newest sample that is
\* not live, or with no sample, the temperature is absent and the room is
\* not live; the newest sample's timestamp is reported whenever there is one.
C8_NoStaleTemperature ==
  view.kind = "latest" =>
    IF RowsOf(view.cold_room_id) = {}
      THEN /\ IsNone(view.latest_temp)
           /\ ~view.is_sensor_active
           /\ IsNone(view.latest_time)
      ELSE \E r \in Newest(view.cold_room_id) :
             /\ view.latest_time = Some(format_timestamp_indian(TimestampText(r.timestamp)))
             /\ view.is_sensor_active <=> Age(r.timestamp) <= LIVE_SECONDS
             /\ view.latest_temp = IF Age(r.timestamp) <= LIVE_SECONDS
                                     THEN Some(r.temperature) ELSE None

\* C9: the 24-hour statistics of a room none of whose samples has a
\* timestamp >= now - 24h (a room without samples, or with older samples
\* only) have avg, min and max absent, count 0, trend "stable" and no
\* samples.
C9_EmptyWindowStats ==
  view.kind = "stats" =>
    ((\A r \in RowsOf(view.cold_room_id) : r.timestamp < CurrentTimestamp - DAY_SECONDS)
       => /\ IsNone(view.stats.avg_temp)
          /\ IsNone(view.stats.min_temp)
          /\ IsNone(view.stats.max_temp)
          /\ view.stats.readings_count = 0
          /\ view.stats.trend = "stable"
          /\ view.stats.last_24h_data = <<>>)

\* The statistics were computed for a room all of whose samples are older
\* than 24 hours.
C9_Witness ==
  /\ view.kind = "stats"
  /\ RowsOf(view.cold_room_id) # {}
  /\ \A r \in RowsOf(view.cold_room_id) : r.timestamp < CurrentTimestamp - DAY_SECONDS
  /\ view.stats.readings_count = 0

\* The temperatures (half degrees) of the window, newest first, when the
\* samples of the room have distinct timestamps.
RECURSIVE NewestFirst(_)
NewestFirst(rows) ==
  IF rows = {} THEN <<>>
  ELSE LET r == CHOOSE x \in rows : \A o \in rows : o.timestamp <= x.timestamp
       IN  <<r.temperature>> \o NewestFirst(rows \ {r})

\* The trend the rule gives in exact arithmetic: the means are sums of half
\* degrees over 2 * k, and 0.5 is k / (2 * k).
ExactTrend(temperatures) ==
  LET n      == Len(temperatures)
      k      == Min(5, n)
      recent == Sum(SubSeq(temperatures, 1, k))
      older  == Sum(SubSeq(temperatures, n - k + 1, n))
  IN  IF n < 2 THEN "stable"
      ELSE IF recent > older + k THEN "rising"
      ELSE IF recent < older - k THEN "falling"
      ELSE "stable"

\* C10: the trend is "rising" exactly when the mean of the newest min(5, n)
\* samples of the window exceeds the mean of its oldest min(5, n) samples by
\* more than 0.5, "falling" exactly when it is lower by more than 0.5, and
\* "stable" otherwise (a difference of exactly 0.5 is stable, and so are
\* fewer than 2 samples).
C10_TrendByHalfDegree ==
  view.kind = "stats" =>
    view.stats.trend = ExactTrend(NewestFirst(Last24Hours(view.cold_room_id)))

-----------------------------------------------------------------------------
(***************************************************************************)
(* Properties of the export.                                               *)
(***************************************************************************)
\* The day of January 2025 a bound of the date range names, if it is given.
BoundDay(date) == IF IsNone(date) \/ Val(date) = <<>> THEN None ELSE Some(Val(date)[3])

\* The day of January 2025 a sample was written on.
DayOfSample(r) == r.timestamp \div DAY_SECONDS + 1

\* The samples an export request asks for: those of its room written on a
\* day of its date range.
Requested(request) ==
  {r \in {temperature_data[i] : i \in DOMAIN temperature_data} :
     /\ r.cold_room_id = request.cold_room_id
     /\ IsNone(BoundDay(request.date_from)) \/ Val(BoundDay(request.date_from)) <= DayOfSample(r)
     /\ IsNone(BoundDay(request.date_to)) \/ DayOfSample(r) <= Val(BoundDay(request.date_to))}

\* The ways of listing a finite set without repetition.
Listings(S) ==
  {f \in [1..Cardinality(S) -> S] : \A i, j \in DOMAIN f : f[i] = f[j] => i = j}

\* The export answered with rows of the given aggregation.
Exported(aggregation) ==
  /\ view.kind = "export"
  /\ view.request.aggregation = aggregation
  /\ ~view.request.runtime.retrieval_fails

\* The rows of a full export are the requested samples, each once, with the
\* stored timestamp and temperature, no timestamp before a later one.
FullRows(data, request) ==
  \E f \in Listings(Requested(request)) :
    /\ Len(data) = Len(f)
    /\ \A i \in DOMAIN f :
         /\ data[i].timestamp = TimestampText(f[i].timestamp)
         /\ data[i].temperature = f[i].temperature
    /\ \A i \in 1..(Len(f) - 1) : f[i].timestamp >= f[i + 1].timestamp

\* C11: a full export returns exactly the samples of the requested room
\* whose calendar date lies in [date_from, date_to] (bounds inclusive and
\* optional), with the stored timestamp and temperature, newest first; and
\* an export repeated with no write in between returns the same rows.
C11_FullExportExact ==
  /\ [](Exported("full") => FullRows(view.data, view.request))
  /\ [][(Exported("full") /\ Exported("full")' /\ view'.request = view.request)
          => /\ Len(view'.data) = Len(view.data)
             /\ {view'.data[i] : i \in DOMAIN view'.data}
                  = {view.data[i] : i \in DOMAIN view.data}]_vars

\* A full export returned a sample while the store holds another sample
\* that the request does not ask for.
C11_Witness ==
  /\ Exported("full")
  /\ view.data # <<>>
  /\ BoundDay(view.request.date_from) # None
  /\ Cardinality(Requested(view.request)) < Len(temperature_data)

\* The start of the calendar hour or day a sample falls in, as a second.
BucketStart(aggregation, r) ==
  IF aggregation = "hourly" THEN (r.timestamp \div 3600) * 3600
  ELSE (r.timestamp \div DAY_SECONDS) * DAY_SECONDS

\* The text an aggregated row carries for the bucket starting at a second.
BucketText(aggregation, start) ==
  IF aggregation = "hourly" THEN TimestampText(start)
  ELSE <<TimestampText(start)[1], TimestampText(start)[2], TimestampText(start)[3]>>

\* The rows of an aggregated export: one for each bucket holding a
\* requested sample, later buckets first, each with the mean, the least and
\* the greatest temperature and the number of the samples of its bucket.
AggregatedRows(data, request) ==
  LET starts == {BucketStart(request.aggregation, r) : r \in Requested(request)}
      In(start) == {r \in Requested(request) : BucketStart(request.aggregation, r) = start}
  IN  \E f \in Listings(starts) :
        /\ Len(data) = Len(f)
        /\ \A i \in 1..(Len(f) - 1) : f[i] > f[i + 1]
        /\ \A i \in DOMAIN f :
             /\ data[i].timestamp = BucketText(request.aggregation, f[i])
             /\ data[i].readings = Cardinality(In(f[i]))
             /\ data[i].temperature =
                  FloatDiv(Sum(TemperaturesOf(In(f[i]))), 2 * Cardinality(In(f[i])))
             /\ \A r \in In(f[i]) : data[i].min_temp <= r.temperature
                                    /\ r.temperature <= data[i].max_temp
             /\ \E r \in In(f[i]) : data[i].min_temp = r.temperature
             /\ \E r \in In(f[i]) : data[i].max_temp = r.temperature

\* C12: an hourly (daily) export returns one row for each calendar hour
\* (day) holding a requested sample, newest bucket first, each row with the
\* average, min, max and count of exactly the samples of its bucket; the
\* counts add up to the number of rows of the full export of the request.
C12_AggregatedExportByBucket ==
  \A aggregation \in {"hourly", "daily"} :
    Exported(aggregation) =>
      /\ AggregatedRows(view.data, view.request)
      /\ Sum([i \in DOMAIN view.data |-> view.data[i].readings])
           = Cardinality(Requested(view.request))

\* An hourly export returned two rows for two hours of one day.
C12_Witness ==
  /\ Exported("hourly")
  /\ Len(view.data) = 2
  /\ DateOf(view.data[1].timestamp) = DateOf(view.data[2].timestamp)

IdsOf(result) == {result[i].id : i \in DOMAIN result}

\* The unresolved errors of the log.
Unresolved == {e \in ErrorRows : ~e.resolved}

\* A step that is a call of resolve_esp32_error.
Resolved(error_id) == view'.kind = "resolve" /\ view'.error_id = error_id

\* C14: resolving an error marks it resolved and changes nothing else; a
\* resolve of an id that is already resolved or that no error has leaves the
\* log as it was and succeeds; the list of all unresolved errors holds
\* exactly the unresolved ones and a room's list holds no resolved one.
C14_ResolveIdempotent ==
  /\ [](/\ view.kind = "unresolved" =>
             /\ IdsOf(view.result) = {e.id : e \in Unresolved}
             /\ Len(view.result) = Cardinality(Unresolved)
        /\ view.kind = "room_errors" =>
             /\ IdsOf(view.result) \subseteq {e.id : e \in Unresolved}
             /\ \A i \in DOMAIN view.result : ~view.result[i].resolved)
  /\ [][\A error_id \in ErrorIds : Resolved(error_id) =>
          /\ view'.result
          /\ DOMAIN esp32_errors' = DOMAIN esp32_errors
          /\ \A i \in DOMAIN esp32_errors :
               /\ esp32_errors[i].id = error_id => esp32_errors'[i].resolved
               /\ [esp32_errors'[i] EXCEPT !.resolved = esp32_errors[i].resolved]
                    = esp32_errors[i]
               /\ esp32_errors[i].id # error_id => esp32_errors'[i] = esp32_errors[i]
          /\ (\A e \in Unresolved : e.id # error_id) => esp32_errors' = esp32_errors
          /\ UNCHANGED <<cold_rooms, temperature_data>>]_vars

\* After a resolve, the list of all unresolved errors was asked for and holds
\* one of the two logged errors, the other being resolved.
C14_Witness ==
  /\ view.kind = "unresolved"
  /\ Len(esp32_errors) = 2
  /\ Len(view.result) = 1
  /\ \E e \in ErrorRows : e.resolved /\ e.id \notin IdsOf(view.result)

\* C15: once room 1, which held the sensor s1, is deleted, its id is never a
\* room's again and no reading is stored under it: every sample written goes
\* to the room that holds the reading's sensor at that moment; deleting and
\* adding rooms leaves the error log as it is, the error logged earlier for
\* s1 included.
C15_SensorReuse ==
  /\ [](Len(esp32_errors) >= 1 /\ esp32_errors[1] = EarlierError)
  /\ [][/\ ~RoomExists(1) => ~RoomExists(1)'
        /\ cold_rooms' # cold_rooms => esp32_errors' = esp32_errors
        /\ AppendedOne(temperature_data, temperature_data') =>
             LET sample == Last(temperature_data') IN
             /\ sample.cold_room_id \in DOMAIN cold_rooms
             /\ cold_rooms[sample.cold_room_id].sensor_id = Reading.sensor_id
             /\ ~RoomExists(1) => sample.cold_room_id # 1]_vars

\* Room 1 is gone, room 2 holds s1 and a reading of s1 was stored under
\* room 2, with the earlier error for s1 still in the log.
C15_Witness ==
  /\ ~RoomExists(1)
  /\ RoomExists(2) /\ cold_rooms[2].sensor_id = Some("s1")
  /\ \E i \in DOMAIN temperature_data : temperature_data[i].cold_room_id = 2
  /\ esp32_errors[1] = EarlierError

\* The rooms other than `except` that hold a sensor identifier.
OtherHolders(sensor_id, except) ==
  {id \in DOMAIN cold_rooms \ {except} :
     sensor_id # None /\ cold_rooms[id].sensor_id = sensor_id}

\* C16: no two rooms ever hold the same sensor identifier, so a sensor
\* resolves to at most one room; an add or an update that names a sensor
\* another room holds reports failure and leaves the rooms as they were.
C16_SensorUnique ==
  /\ [](/\ \A a, b \in DOMAIN cold_rooms :
             (a # b /\ cold_rooms[a].sensor_id # None)
               => cold_rooms[a].sensor_id # cold_rooms[b].sensor_id
        /\ \A s \in Sensors : Cardinality(get_cold_room_by_sensor(s)) <= 1)
  /\ [][/\ (view'.kind = "add_cold_room"
                /\ OtherHolders(view'.sensor_id, 0) # {})
             => (view'.result = None /\ cold_rooms' = cold_rooms)
        /\ (view'.kind = "update_cold_room"
                /\ OtherHolders(view'.sensor_id, view'.cold_room_id) # {})
             => (view'.result = FALSE /\ cold_rooms' = cold_rooms)]_vars

\* An update that named the other room's sensor was refused.
C16_Witness ==
  /\ view.kind = "update_cold_room"
  /\ view.result = FALSE
  /\ OtherHolders(view.sensor_id, view.cold_room_id) # {}
  /\ cold_rooms[view.cold_room_id].sensor_id \notin {None, view.sensor_id}

\* C17: every stored sample refers to a room of the registry, the samples of
\* a deleted room being removed with it.
C17_NoOrphanSamples ==
  \A i \in DOMAIN temperature_data :
    RoomExists(temperature_data[i].cold_room_id)

\* C18: an iteration that has an error to log, for a malformed reading or
\* for a sensor no room holds, ends normally whatever happens to the store
\* while the record is written: the reading is counted as rejected and the
\* loop goes on or the batch is answered with success.
C18_LoggingNeverFailsCaller ==
  [][(Iteration /\ Reading.is_object
        /\ (~HasSensor(Reading) \/ ~HasTemperature(Reading) \/ Holders(Reading) = {}))
     => /\ Continues
        /\ RejectedAfter = req.error_count + 1]_vars

\* The samples of the rooms of the location whose timestamp is at least
\* now - 24h.
Pooled ==
  {temperature_data[i] : i \in {j \in DOMAIN temperature_data :
      /\ RoomExists(temperature_data[j].cold_room_id)
      /\ temperature_data[j].timestamp >= CurrentTimestamp - DAY_SECONDS}}

\* C19: the combined 24-hour average, minimum and maximum of the dashboard
\* are the mean, the least and the greatest temperature over every sample of
\* the location's rooms with timestamp >= now - 24h, rounded to a tenth,
\* however many samples a room has in the window.
C19_PooledOverAllSamples ==
  view.kind = "dashboard" =>
    LET temps == TemperaturesOf(Pooled) IN
    /\ view.combined_stats.avg_24h = MeanOrNone(temps)
    /\ Pooled # {} =>
         /\ \E r \in Pooled :
              /\ \A o \in Pooled : r.temperature <= o.temperature
              /\ view.combined_stats.min_24h = Some(5 * r.temperature)
         /\ \E r \in Pooled :
              /\ \A o \in Pooled : r.temperature >= o.temperature
              /\ view.combined_stats.max_24h = Some(5 * r.temperature)
    /\ Pooled = {} =>
         /\ view.combined_stats.min_24h = None
         /\ view.combined_stats.max_24h = None

\* The rooms whose newest sample is at most 900 seconds old.
LiveRooms ==
  {id \in DOMAIN cold_rooms :
     \E r \in Newest(id) : Age(r.timestamp) <= LIVE_SECONDS}

\* C20: the combined live temperature is the mean of the newest temperatures
\* of exactly the rooms whose newest sample is at most 900 s old, absent
\* exactly when online_count is 0; online_count is the number of those rooms
\* and total_count the number of rooms; the samples of a room that is not
\* live still count in the combined 24-hour statistics.
C20_LiveMeanAndCounts ==
  view.kind = "dashboard" =>
    /\ view.combined_stats.online_count = Cardinality(LiveRooms)
    /\ view.combined_stats.total_count = Cardinality(DOMAIN cold_rooms)
    /\ view.combined_stats.online_count <= view.combined_stats.total_count
    /\ view.combined_stats.live_temp = None <=> view.combined_stats.online_count = 0
    /\ \E newest \in [LiveRooms -> UNION {Newest(id) : id \in LiveRooms}] :
         /\ \A id \in LiveRooms : newest[id] \in Newest(id)
         /\ view.combined_stats.live_temp =
              MeanOrNone(Collect(Ascending(LiveRooms),
                                 [id \in LiveRooms |-> <<newest[id].temperature>>]))
    /\ view.combined_stats.avg_24h = MeanOrNone(TemperaturesOf(Pooled))

\* The number of the first n elements of a sequence that satisfy a test.
Count(seq, n, Test(_)) == Cardinality({i \in 1..n : Test(seq[i])})

\* A reading of a request that runs alone is stored as a sample.
Accepted(reading) ==
  HasSensor(reading) /\ HasTemperature(reading) /\ Holders(reading) # {}

\* The readings a handler has dealt with: all of its request once it has
\* answered, none before it has started.
Handled(h) ==
  IF h.pc = "done" THEN Len(h.data.readings.items)
  ELSE IF h.pc = "loop" THEN h.i ELSE 0

\* The handlers of the two requests.
Handlers == {req, suspended}

\* C21: however two ingestion requests interleave, each sample and each
\* error record in the store is the one a handled reading of one of the two
\* requests yields when its request runs alone, each as often, and the
\* counts a request reports are those of its own readings.
C21_IndependentIngestion ==
  /\ \A id \in DOMAIN cold_rooms, t \in ReadingTemps :
       Count(temperature_data, Len(temperature_data),
             LAMBDA s : s.cold_room_id = id /\ s.temperature = t)
       = Count(req.data.readings.items, Handled(req),
               LAMBDA r : Accepted(r) /\ id \in Holders(r) /\ r.temperature = Some(t))
         + Count(suspended.data.readings.items, Handled(suspended),
                 LAMBDA r : Accepted(r) /\ id \in Holders(r) /\ r.temperature = Some(t))
  /\ \A sensor_id \in Sensors \cup {"UNKNOWN"} :
       Count(esp32_errors, Len(esp32_errors), LAMBDA e : e.sensor_id = sensor_id)
       = Count(req.data.readings.items, Handled(req),
               LAMBDA r : ~Accepted(r) /\ SensorOrUnknown(r.sensor_id) = sensor_id)
         + Count(suspended.data.readings.items, Handled(suspended),
                 LAMBDA r : ~Accepted(r) /\ SensorOrUnknown(r.sensor_id) = sensor_id)
  /\ Len(temperature_data) + Len(esp32_errors) = Handled(req) + Handled(suspended)
  /\ \A h \in Handlers : h.pc = "done" =>
       /\ h.http = 200
       /\ h.message.processed =
            Count(h.data.readings.items, Len(h.data.readings.items), Accepted)
       /\ (IF h.message.errors = None THEN 0 ELSE Val(h.message.errors)) =
            Count(h.data.readings.items, Len(h.data.readings.items),
                  LAMBDA r : ~Accepted(r))

\* Two requests of two readings each have both been answered; the second
\* arrived when the first had handled one of its readings.
C21_Witness ==
  /\ req.pc = "done" /\ suspended.pc = "done"
  /\ Len(req.data.readings.items) = 2 /\ Len(suspended.data.readings.items) = 2
  /\ req.rows0 + req.errors0 = 0
  /\ suspended.rows0 + suspended.errors0 = 1
  /\ req.message.processed = 1 /\ suspended.message.processed = 2

\* The unresolved errors logged under the sensor identifier a room holds.
ErrorsOfRoom(cold_room_id) ==
  IF RoomExists(cold_room_id) /\ Truthy(cold_rooms[cold_room_id].sensor_id)
    THEN {e \in Unresolved : e.sensor_id = Val(cold_rooms[cold_room_id].sensor_id)}
    ELSE {}

\* The stored error a returned record stands for.
Stored(record) == CHOOSE e \in ErrorRows : e.id = record.id

\* C22: the errors returned for a room are unresolved errors stored under
\* the sensor identifier the room holds now, whoever held it when they were
\* logged: the newest `limit` of them, or all when there are fewer, each
\* once, newest first and as stored; none for a room that does not exist or
\* holds no sensor.
C22_ErrorsOfCurrentSensor ==
  view.kind = "room_errors" =>
    LET matching == ErrorsOfRoom(view.cold_room_id)
        returned == IdsOf(view.result)
    IN  /\ Len(view.result) = Min(view.limit, Cardinality(matching))
        /\ Cardinality(returned) = Len(view.result)
        /\ returned \subseteq {e.id : e \in matching}
        /\ \A i \in DOMAIN view.result :
             LET e == Stored(view.result[i]) IN
             /\ ~view.result[i].resolved
             /\ view.result[i].esp32_mac = e.esp32_mac
             /\ view.result[i].error_type = e.error_type
             /\ view.result[i].error_message = e.error_message
             /\ view.result[i].timestamp =
                  format_timestamp_indian(TimestampText(e.timestamp))
             /\ \A j \in DOMAIN view.result :
                  i < j => e.timestamp >= Stored(view.result[j]).timestamp
             /\ \A o \in matching :
                  o.id \notin returned => o.timestamp <= e.timestamp

\* A room holds a sensor for which an error was logged while no room held
\* it, and has two unresolved errors; asked for one, the query returned one.
C22_Witness ==
  /\ view.kind = "room_errors"
  /\ view.limit = 1
  /\ Len(view.result) = 1
  /\ Cardinality(ErrorsOfRoom(view.cold_room_id)) = 2
  /\ \E e \in ErrorsOfRoom(view.cold_room_id) : e.error_type = "UNREGISTERED_SENSOR"

\* The rooms that hold the sensor identifier of an error.
RoomsOf(e) ==
  {id \in DOMAIN cold_rooms : cold_rooms[id].sensor_id = Some(e.sensor_id)}

WrittenAggregates(response, i) ==
  IF response.format = "csv"
    THEN <<response.lines[i][2], response.lines[i][3], response.lines[i][4]>>
    ELSE <<round2(response.lines[i].temperature),
           round2(FloatDiv(response.lines[i].min_temp, 2)),
           round2(FloatDiv(response.lines[i].max_temp, 2))>>

\* C24: in the file of an hourly or daily export, CSV or workbook, the
\* average, minimum and maximum of every line are the values of the query
\* rounded to one decimal place; the file of a full export carries each
\* temperature as the store holds it.
C24_AggregatesToOneDecimal ==
  (view.kind = "export" /\ view.response.outcome = "file") =>
    \A i \in DOMAIN view.response.lines :
      IF view.request.aggregation = "full"
        THEN \E r \in RowsOf(view.request.cold_room_id) :
               /\ TimestampText(r.timestamp) = view.data[i].timestamp
               /\ (IF view.response.format = "csv"
                     THEN view.response.lines[i][2]
                     ELSE view.response.lines[i].temperature) = r.temperature
        ELSE WrittenAggregates(view.response, i) =
               <<10 * round1(view.data[i].temperature),
                 10 * round1(FloatDiv(view.data[i].min_temp, 2)),
                 10 * round1(FloatDiv(view.data[i].max_temp, 2))>>

\* C25: last_update of the combined statistics is the timestamp of the
\* newest sample among the newest samples of the live rooms, whatever the
\* ages of the samples are (an age of 0 seconds included), and it is absent
\* exactly when no room is live.
C25_LastUpdateOfNewestLive ==
  view.kind = "dashboard" =>
    IF LiveRooms = {}
      THEN view.combined_stats.last_update = None
      ELSE \E id \in LiveRooms :
             \E r \in Newest(id) :
               /\ \A other \in LiveRooms :
                    \A o \in Newest(other) : o.timestamp <= r.timestamp
               /\ view.combined_stats.last_update =
                    Some(format_timestamp_indian(TimestampText(r.timestamp)))

\* C26: the status of a room is derived from the clock of the read: read
\* more than 900 s after the room's newest sample it reports the room not
\* live and no temperature, at every such read until a new reading of the
\* room is accepted; read in the second in which a reading of the room was
\* accepted it reports the room live with a temperature.
C26_LivenessFollowsClock ==
  view.kind = "latest" =>
    \A r \in Newest(view.cold_room_id) :
      /\ now - 1000 * r.timestamp > 1000 * LIVE_SECONDS
           => ~view.is_sensor_active /\ view.latest_temp = None
      /\ r.timestamp = CurrentTimestamp
           => view.is_sensor_active /\ view.latest_temp # None

\* A room reported not live 900.001 s after its first sample, which was
\* live when it was accepted: the store holds nothing newer of the room.
C26_Witness ==
  /\ view.kind = "latest"
  /\ ~view.is_sensor_active
  /\ \E r \in Newest(view.cold_room_id) : now - 1000 * r.timestamp = 1000 * LIVE_SECONDS + 1

\* C27: the status of a room that is live reports the temperature of the
\* reading of the room accepted last, the sample of the greatest id, also
\* when the sample accepted before it carries the same timestamp.
C27_LatestIsLastAccepted ==
  (view.kind = "latest" /\ view.is_sensor_active) =>
    \E r \in RowsOf(view.cold_room_id) :
      /\ \A o \in RowsOf(view.cold_room_id) : o.id <= r.id
      /\ view.latest_temp = Some(r.temperature)

\* C28: no step of any operation (ingestion, resolve, the reads, create,
\* update and delete of rooms and of locations, reassignment of a sensor)
\* removes a record of the error log or changes its id, device, sensor
\* identifier, kind, message or timestamp, and a record that is resolved
\* stays resolved.
C28_ErrorLogAppendOnly ==
  [][/\ Len(esp32_errors') >= Len(esp32_errors)
     /\ \A i \in DOMAIN esp32_errors :
          /\ esp32_errors'[i].id = esp32_errors[i].id
          /\ esp32_errors'[i].esp32_mac = esp32_errors[i].esp32_mac
          /\ esp32_errors'[i].sensor_id = esp32_errors[i].sensor_id
          /\ esp32_errors'[i].error_type = esp32_errors[i].error_type
          /\ esp32_errors'[i].error_message = esp32_errors[i].error_message
          /\ esp32_errors'[i].timestamp = esp32_errors[i].timestamp
          /\ esp32_errors[i].resolved => esp32_errors'[i].resolved]_vars

\* The log holds a resolved error and a later unresolved one, after the
\* rooms and the location that existed have been deleted.
C28_Witness ==
  /\ Len(esp32_errors) = 2
  /\ esp32_errors[1].resolved
  /\ ~esp32_errors[2].resolved
  /\ DOMAIN cold_rooms = {}
  /\ next_room_id > 1
  /\ DOMAIN locations.rows = {}

\* C29: the statistics of a room whose 24-hour window holds one to five
\* samples report the trend "stable" whatever the temperatures are; a
\* trend other than "stable" is reported only for six or more samples.
C29_StableUpToFiveSamples ==
  view.kind = "stats" =>
    /\ view.stats.readings_count = Cardinality(Last24Hours(view.cold_room_id))
    /\ view.stats.readings_count \in 1..5 => view.stats.trend = "stable"
    /\ view.stats.trend # "stable" => view.stats.readings_count >= 6

\* The statistics of five samples of differing temperatures, the newest
\* the warmest and the oldest the coldest.
C29_Witness ==
  /\ view.kind = "stats"
  /\ view.stats.readings_count = 5
  /\ view.stats.trend = "stable"
  /\ view.stats.min_temp # view.stats.max_temp
  /\ \E r \in Newest(view.cold_room_id) :
       Some(5 * r.temperature) = view.stats.max_temp
  /\ \E r \in Last24Hours(view.cold_room_id) :
       /\ \A o \in Last24Hours(view.cold_room_id) : r.timestamp <= o.timestamp
       /\ Some(5 * r.temperature) = view.stats.min_temp

\* C30: every step that appends a sample appends it for a room that, when
\* the step is taken, exists and holds the sensor identifier of the reading
\* the handler is at, also when a room was updated or deleted after the
\* handler looked the sensor up.
C30_AppendForCurrentHolder ==
  [][Len(temperature_data') > Len(temperature_data) =>
       temperature_data'[Len(temperature_data')].cold_room_id
         \in get_cold_room_by_sensor(Val(req.readings[req.i + 1].sensor_id))]_vars

=============================================================================
